---- MODULE Spec2Model ----
(***************************************************************************)
(* Entity transform command queue of the DX11Starter snapshots.            *)
(*                                                                         *)
(*   - TransformBuffer (scoped generation): a FIFO of TransformItems       *)
(*     (type, payload, scope).                                             *)
(*   - GameEntity (scoped generation): local TRANSFORM + TransformBuffer,  *)
(*     drained by HandleTransformations, which Update calls.               *)
(*   - GameEntity / TransformBuffer (pair generation): the earlier         *)
(*     scope-less queue of (type, payload) pairs.                          *)
(*                                                                         *)
(* Floats are fixed-point integers.  Positions and scales count in units   *)
(* of 0.05 (so 1.0f is 20); quaternion components count in units of 1.     *)
(* Quaternions are kept axis-aligned (one non-zero component), a set that  *)
(* XMQuaternionMultiply and XMQuaternionNormalize map into itself and on   *)
(* which both are exact in integers.                                       *)
(***************************************************************************)
EXTENDS Integers, Sequences, FiniteSets, TLC

\* ------------------------------------------------------------------------
\* Bounds of the model.
\* ------------------------------------------------------------------------

\* Number of commands one entity is given in a behaviour.
MaxPushes == 3

\* Number of push/pop calls made on the stand-alone buffer in a behaviour.
MaxBufferOps == 4

\* Number of commands one entity is given where liveness is checked.
MaxLivePushes == 2

\* ------------------------------------------------------------------------
\* TransformBuffer enums.
\* ------------------------------------------------------------------------

T_NONE == 0
T_POSITION == 1
T_SCALE == 2
T_ROTATION == 3

S_IGNORE == 0
S_ABSOLUTE == 1
S_RELATIVE == 2

TransformScope == {S_IGNORE, S_ABSOLUTE, S_RELATIVE}

\* 1.0f in the fixed-point unit of positions and scales.
One == 20

\* ------------------------------------------------------------------------
\* Vector helpers (XMFLOAT3 / XMFLOAT4 as tuples).
\* ------------------------------------------------------------------------

XMFLOAT3(x, y, z) == <<x, y, z>>

XMFLOAT4(x, y, z, w) == <<x, y, z, w>>

\* result.x += t.x; result.y += t.y; result.z += t.z
AddFloat3(result, t) == <<result[1] + t[1], result[2] + t[2], result[3] + t[3]>>

\* DirectXMath: XMQuaternionMultiply(Q1, Q2) returns the product Q2*Q1.
XMQuaternionMultiply(Q1, Q2) ==
    << (Q2[4] * Q1[1]) + (Q2[1] * Q1[4]) + (Q2[2] * Q1[3]) - (Q2[3] * Q1[2]),
       (Q2[4] * Q1[2]) - (Q2[1] * Q1[3]) + (Q2[2] * Q1[4]) + (Q2[3] * Q1[1]),
       (Q2[4] * Q1[3]) + (Q2[1] * Q1[2]) - (Q2[2] * Q1[1]) + (Q2[3] * Q1[4]),
       (Q2[4] * Q1[4]) - (Q2[1] * Q1[1]) - (Q2[2] * Q1[2]) - (Q2[3] * Q1[3]) >>

LengthSq(q) == (q[1] * q[1]) + (q[2] * q[2]) + (q[3] * q[3]) + (q[4] * q[4])

\* Integer square root (exact on the axis-aligned quaternions of the model).
ISqrt(n) == CHOOSE r \in 0..n : r * r <= n /\ (r + 1) * (r + 1) > n

Sgn(c) == IF c > 0 THEN 1 ELSE IF c < 0 THEN -1 ELSE 0

\* Truncating division of a component by a positive length.
DivTrunc(c, l) == Sgn(c) * ((Sgn(c) * c) \div l)

\* DirectXMath: XMQuaternionNormalize(Q) = Q / |Q| (zero length gives zero).
XMQuaternionNormalize(q) ==
    LET l == ISqrt(LengthSq(q))
    IN IF l = 0 THEN <<0, 0, 0, 0>>
       ELSE <<DivTrunc(q[1], l), DivTrunc(q[2], l), DivTrunc(q[3], l), DivTrunc(q[4], l)>>

XMQuaternionIdentity == <<0, 0, 0, 1>>

\* Sine and cosine of half an angle given in units of pi.
SinHalf(angle) == CASE angle % 4 = 0 -> 0 [] angle % 4 = 1 -> 1
                    [] angle % 4 = 2 -> 0 [] OTHER -> -1

CosHalf(angle) == CASE angle % 4 = 0 -> 1 [] angle % 4 = 1 -> 0
                    [] angle % 4 = 2 -> -1 [] OTHER -> 0

\* DirectXMath: XMQuaternionRotationRollPitchYaw(Pitch, Yaw, Roll).  Angles
\* are given in units of pi, so the half-angle sines and cosines are 0, 1
\* or -1.
XMQuaternionRotationRollPitchYaw(Pitch, Yaw, Roll) ==
    LET sp == SinHalf(Pitch)
        cp == CosHalf(Pitch)
        sy == SinHalf(Yaw)
        cy == CosHalf(Yaw)
        sr == SinHalf(Roll)
        cr == CosHalf(Roll)
    IN << (cr * sp * cy) + (sr * cp * sy),
          (cr * cp * sy) - (sr * sp * cy),
          (sr * cp * cy) - (cr * sp * sy),
          (cr * cp * cy) + (sr * sp * sy) >>

\* ------------------------------------------------------------------------
\* TRANSFORM (Transform.cpp): position, scale and rotation of an entity.
\* ------------------------------------------------------------------------

GetPosition(t) == XMFLOAT3(t.pX, t.pY, t.pZ)

GetScale(t) == XMFLOAT3(t.sX, t.sY, t.sZ)

GetRotation(t) == XMFLOAT4(t.rX, t.rY, t.rZ, t.rW)

SetPosition(t, v) == [t EXCEPT !.pX = v[1], !.pY = v[2], !.pZ = v[3]]

SetScale(t, v) == [t EXCEPT !.sX = v[1], !.sY = v[2], !.sZ = v[3]]

SetRotation(t, q) == [t EXCEPT !.rX = q[1], !.rY = q[2], !.rZ = q[3], !.rW = q[4]]

\* A ten-argument constructor that stores every argument in its own field.
TRANSFORM_own(posX, posY, posZ, scaleX, scaleY, scaleZ, rotX, rotY, rotZ, rotW) ==
    [pX |-> posX, pY |-> posY, pZ |-> posZ, sX |-> scaleX, sY |-> scaleY, sZ |-> scaleZ,
     rX |-> rotX, rY |-> rotY, rZ |-> rotZ, rW |-> rotW]

\* TRANSFORM::TRANSFORM(_posX, _posY, _posZ, _scaleX, _scaleY, _scaleZ,
\* _rotX, _rotY, _rotZ, _rotW): the member initialiser list
TRANSFORM(posX, posY, posZ, scaleX, scaleY, scaleZ, rotX, rotY, rotZ, rotW) ==
    [pX |-> posX, pY |-> posY, pZ |-> posZ, sX |-> posX, sY |-> posY, sZ |-> posZ,
     rX |-> rotX, rY |-> rotY, rZ |-> rotZ, rW |-> rotW]

\* A TRANSFORM whose fields are about to be assigned by the constructor.
BlankTransform ==
    [pX |-> 0, pY |-> 0, pZ |-> 0, sX |-> 0, sY |-> 0, sZ |-> 0,
     rX |-> 0, rY |-> 0, rZ |-> 0, rW |-> 0]

\* A CreateTransformations that sets no default.
CreateTransformations_blank(t) == t

\* GameEntity::CreateTransformations
CreateTransformations(t) ==
    SetRotation(SetScale(SetPosition(t, XMFLOAT3(0, 0, 0)), XMFLOAT3(One, One, One)),
                XMFLOAT4(0, 0, 0, 1))

\* GameEntity::GameEntity(mesh)
EntityDefault == CreateTransformations(BlankTransform)

\* GameEntity::GameEntity(mesh, pX, pY, pZ)
EntityAt(p) == SetPosition(EntityDefault, p)

\* GameEntity::GameEntity(mesh, pX, pY, pZ, sX, sY, sZ)
EntityAtScaled(p, s) == SetScale(EntityAt(p), s)

\* ------------------------------------------------------------------------
\* TransformBuffer, scoped generation (TransformItem = type, data, scope).
\* ------------------------------------------------------------------------

get_type(item) == item.type

get_data(item) == item.data

get_scope(item) == item.scope

IsMatchingTransformScope(a, b) == (a = b)

IsOfTransformScope(scope, transformation) ==
    IsMatchingTransformScope(scope, get_scope(transformation))

\* IsIgnored written against the wrong enum constant.
IsIgnored_absolute(transformation) == IsOfTransformScope(S_ABSOLUTE, transformation)

IsIgnored(transformation) == IsOfTransformScope(S_IGNORE, transformation)

\* ConvertTransformation(XMFLOAT3& target, const XMFLOAT4& source)
ConvertTo3(source) == XMFLOAT3(source[1], source[2], source[3])

\* ConvertTransformation(XMFLOAT4& target, const XMFLOAT3& source, lastValue)
ConvertTo4(source, lastValue) == XMFLOAT4(source[1], source[2], source[3], lastValue)

item_transformation(type, transformation, scope) ==
    [type |-> type, data |-> transformation, scope |-> scope]

\* A push that puts the item at the front of the queue.
push_item_front(queue, item) == <<item>> \o queue

\* push(queue, item): std::queue::push
push_item(queue, item) == Append(queue, item)

\* push(queue, type, XMFLOAT4 data, scope)
push4(queue, type, data, scope) ==
    push_item(queue, item_transformation(type, data, scope))

\* push(queue, type, XMFLOAT3 data, scope)
push3(queue, type, data, scope) == push4(queue, type, ConvertTo4(data, 0), scope)

push_position(queue, source, scope) == push3(queue, T_POSITION, source, scope)

push_scale(queue, source, scope) == push3(queue, T_SCALE, source, scope)

push_rotation(queue, source, scope) == push4(queue, T_ROTATION, source, scope)

is_empty(queue) == Len(queue) = 0

size(queue) == Len(queue)

\* A peek that reads std::queue::back instead of the front.
peek_back(queue) == queue[Len(queue)]

\* peek(queue): std::queue::front
peek(queue) == Head(queue)

peek_item(queue) == peek(queue)

next_type(queue) == get_type(peek_item(queue))

next_scope(queue) == get_scope(peek_item(queue))

peek_float4(queue) == get_data(peek_item(queue))

peek_float3(queue) == ConvertTo3(peek_float4(queue))

\* pop(queue) with the emptiness guard removed: std::queue::pop on an empty
\* queue is undefined behaviour, recorded as a fault.
pop_unguarded(queue) ==
    IF is_empty(queue) THEN [queue |-> queue, fault |-> TRUE]
    ELSE [queue |-> Tail(queue), fault |-> FALSE]

\* pop(TransformQueue& queue): the result queue, and whether std::queue::pop
\* was entered on an empty queue.
pop(queue) ==
    IF ~is_empty(queue) THEN [queue |-> Tail(queue), fault |-> FALSE]
    ELSE [queue |-> queue, fault |-> FALSE]

\* ------------------------------------------------------------------------
\* GameEntity, scoped generation: per-type handlers and the drain.
\* ------------------------------------------------------------------------

\* HandlePosition whose RELATIVE branch overwrites instead of accumulating.
HandlePosition_overwrite(t, transformation, scope) ==
    IF scope = S_RELATIVE \/ scope = S_ABSOLUTE
    THEN SetPosition(t, transformation)
    ELSE t

\* GameEntity::HandlePosition
HandlePosition(t, transformation, scope) ==
    LET result == GetPosition(t)
    IN IF IsMatchingTransformScope(scope, S_RELATIVE)
       THEN SetPosition(t, AddFloat3(result, transformation))
       ELSE IF IsMatchingTransformScope(scope, S_ABSOLUTE)
            THEN SetPosition(t, transformation)
            ELSE SetPosition(t, result)

\* HandleScale whose RELATIVE branch adds onto the scale of a fresh entity
\* instead of the scale the entity holds when the item is processed.
HandleScale_stale(t, transformation, scope) ==
    IF scope = S_RELATIVE
    THEN SetScale(t, AddFloat3(XMFLOAT3(One, One, One), transformation))
    ELSE IF scope = S_ABSOLUTE THEN SetScale(t, transformation) ELSE t

\* GameEntity::HandleScale
HandleScale(t, transformation, scope) ==
    LET result == GetScale(t)
    IN IF IsMatchingTransformScope(scope, S_RELATIVE)
       THEN SetScale(t, AddFloat3(result, transformation))
       ELSE IF IsMatchingTransformScope(scope, S_ABSOLUTE)
            THEN SetScale(t, transformation)
            ELSE SetScale(t, result)

\* HandleRotation whose ABSOLUTE branch composes with the current rotation.
HandleRotation_compose(t, transformation, scope) ==
    IF scope = S_RELATIVE \/ scope = S_ABSOLUTE
    THEN SetRotation(t, XMQuaternionNormalize(
                            XMQuaternionMultiply(GetRotation(t), transformation)))
    ELSE t

\* GameEntity::HandleRotation
HandleRotation(t, transformation, scope) ==
    LET result == GetRotation(t)
    IN IF IsMatchingTransformScope(scope, S_RELATIVE)
       THEN LET orientation == result
                deltaRotation == transformation
                rotation == XMQuaternionMultiply(orientation, deltaRotation)
            IN SetRotation(t, XMQuaternionNormalize(rotation))
       ELSE IF IsMatchingTransformScope(scope, S_ABSOLUTE)
            THEN SetRotation(t, transformation)
            ELSE SetRotation(t, result)

\* The switch on next_type() inside the drain loop.
HandleItem(t, queue, scope) ==
    CASE next_type(queue) = T_POSITION -> HandlePosition(t, peek_float3(queue), scope)
      [] next_type(queue) = T_SCALE -> HandleScale(t, peek_float3(queue), scope)
      [] next_type(queue) = T_ROTATION -> HandleRotation(t, peek_float4(queue), scope)
      [] OTHER -> t

\* One iteration of the while loop of HandleTransformations.  d carries the
\* local transform, the queue, the items popped and the items handed to a
\* per-type handler so far, whether std::queue::pop met an empty queue, and
\* whether next_scope, peek_item, next_type or peek_float3/4 read the front
\* of an empty queue (undefined behaviour: the iteration is then followed
\* no further).
DrainStep(d) ==
    IF is_empty(d.queue) THEN [d EXCEPT !.emptyPeek = TRUE]
    ELSE
    LET scope == next_scope(d.queue)
        ignored == IsIgnored(peek_item(d.queue))
        popResult == pop(d.queue)
    IN [queue |-> popResult.queue,
        fault |-> d.fault \/ popResult.fault,
        emptyPeek |-> d.emptyPeek,
        local |-> IF ~ignored THEN HandleItem(d.local, d.queue, scope) ELSE d.local,
        popped |-> Append(d.popped, peek_item(d.queue)),
        resolved |-> IF ~ignored /\ next_type(d.queue) \in {T_POSITION, T_SCALE, T_ROTATION}
                     THEN Append(d.resolved, peek_item(d.queue))
                     ELSE d.resolved]

\* A drain that handles the front item only (an if where the loop is).
DrainLoop_single(d) == IF is_empty(d.queue) THEN d ELSE DrainStep(d)

\* The while (!transformBuffer.is_empty()) loop.
RECURSIVE DrainLoop(_)
DrainLoop(d) == IF is_empty(d.queue) THEN d ELSE DrainLoop(DrainStep(d))

\* A drain that runs the loop body once before it tests is_empty.
DrainFrom_unguarded(t, queue) ==
    DrainLoop(DrainStep([queue |-> queue, fault |-> FALSE, emptyPeek |-> FALSE,
                         local |-> t, popped |-> <<>>, resolved |-> <<>>]))

\* The body of GameEntity::HandleTransformations on a local transform and a
\* buffer: the if (!is_empty()) around the loop adds nothing to the loop.
DrainFrom(t, queue) ==
    DrainLoop([queue |-> queue, fault |-> FALSE, emptyPeek |-> FALSE, local |-> t,
               popped |-> <<>>, resolved |-> <<>>])

\* ------------------------------------------------------------------------
\* Inputs of the model.
\* ------------------------------------------------------------------------

\* Arguments of Move and MoveTo.
MoveDeltas == {<<1, 0, -1>>, <<0, 2, 0>>}

MoveTargets == {<<0, 2, 0>>}

\* Arguments of Scale and ScaleTo: (0.1, 0, 0) and (0.2, 0.2, 0.2).
ScaleDeltas == {<<2, 0, 0>>}

ScaleTargets == {<<4, 4, 4>>}

\* Arguments of Rotate and RotateTo: (pitch, yaw, roll) in units of pi.
RotateAngles == {<<1, 0, 0>>}

RotateToAngles == {<<0, 1, 0>>}

\* Requests given to UpdatePosition, UpdateScale and UpdateRotation.
PositionRequests == {<<0, 2, 0>>}

ScaleRequests == {<<4, 4, 4>>}

RotationRequests == {<<1, 0, 0, 0>>}

\* sinf(totalTime) at its extremes.
SinValues == {-1, 1}

\* Constructor arguments of the entities.
StartPositions == {<<-2, 1, 0>>}

StartScales == {<<6, 6, 6>>}

\* ------------------------------------------------------------------------
\* State.
\* ------------------------------------------------------------------------

VARIABLES
    local,            \* GameEntity::local (scoped generation)
    transformBuffer,  \* GameEntity::transformBuffer, its internalQueue
    call,             \* the last call made on the entity and what it met
    pushes,           \* commands given to the entity so far
    pairLocal,        \* GameEntity::local (pair generation)
    pairBuffer,       \* GameEntity::transformBuffer (pair generation)
    pairCall,         \* the last call made on the pair-generation entity
    pairPushes,       \* commands given to the pair-generation entity so far
    internalQueue,    \* TransformBuffer::internalQueue of a stand-alone buffer
    bufferCall,       \* the last call made on the stand-alone buffer
    bufferOps,        \* calls made on the stand-alone buffer so far
    description,             \* a TransformDescription
    descriptionOther,          \* a second TransformDescription (copies, moves, swaps)
    descriptionCall,           \* the last call made on description and what it met
    descriptionOps,            \* calls made on description so far
    cameraOptions,       \* a CameraOptions
    optionsCall,      \* the last call made on cameraOptions and what it met
    optionsOps,       \* calls made on cameraOptions so far
    camera,           \* a Camera: settings, transform, view, projection
    cameraCall,       \* the last call made on the camera and what it met
    cameraOps,        \* calls made on the camera so far
    tracker,          \* Camera::tracker, a MouseTracker
    mouseEvents,       \* the mouse events Game has handled, oldest first
    unitVector,       \* a UnitVector under construction or mutation
    unitOther,        \* a second UnitVector, the source of copies and moves
    unitCall,         \* the last call made on unitVector, with its argument
    unitOps,           \* calls made on the unit vectors so far
    gamePc,           \* where Game is in its life: constructed, running, in ~Game, destroyed
    gameLoop,         \* the index i of the loop ~Game is in
    meshObjects,      \* Game::meshObjects, shared_ptr<Mesh> as mesh ids, 0 for empty
    gameEntities,     \* Game::gameEntities, each entity as the mesh id it holds, 0 for none
    meshHeap,         \* the Mesh objects: use count, buffers held, Release calls made
    gameFrames,       \* the Update and Draw calls made so far
    staleUse,          \* an entity was updated or drawn with a released mesh
    transformValue,   \* a TRANSFORM built by its ten-argument constructor
    transformArgs,    \* the position, scale and rotation that constructor was given
    entityArgs,        \* the arguments of the TRANSFORM the entity was built from
    materialA,        \* a Material, the target of assignments and constructions
    materialB,        \* a second Material, the source of copies and moves
    materialCall,     \* the last call on the materials, with their values before it
    materialOps,       \* calls made on the materials so far
    entities,         \* Game::entities of the earliest generation: the mesh each entity was given
    randomCall,       \* the last draw: <<operation, rand(), min, max, result is NaN, result>>
    seedCheck,        \* the static seedCheck of GameEntity::GetRandomFloat
    errno,             \* errno
    indexing,         \* the subscripts the last step of Game applied: <<collection, index, size>>
    gameMeshCount,    \* Game::meshCount
    initRan,           \* Game::Init has run
    returned          \* the object Camera::GetTransform returned: <<refers to the camera, value>>, or <<>>

entityVars == <<local, transformBuffer, call, pushes>>

pairVars == <<pairLocal, pairBuffer, pairCall, pairPushes>>

bufferVars == <<internalQueue, bufferCall, bufferOps>>

descriptionVars == <<description, descriptionOther, descriptionCall, descriptionOps>>

optionVars == <<cameraOptions, optionsCall, optionsOps>>

cameraVars == <<camera, cameraCall, cameraOps>>

mouseVars == <<tracker, mouseEvents>>

unitVars == <<unitVector, unitOther, unitCall, unitOps>>

meshVars == <<gamePc, gameLoop, meshObjects, gameEntities, meshHeap, gameFrames, staleUse>>

valueVars == <<transformValue, transformArgs, entityArgs>>

materialVars == <<materialA, materialB, materialCall, materialOps>>

randomVars == <<entities, randomCall, seedCheck, errno>>

\* No rand() has been drawn yet.
NoDraw == <<"none", 0, 0, 0, FALSE, 0>>

lifeVars == <<indexing, gameMeshCount, initRan>>

copyVars == <<returned>>

vars == <<local, transformBuffer, call, pushes,
          pairLocal, pairBuffer, pairCall, pairPushes,
          internalQueue, bufferCall, bufferOps,
          description, descriptionOther, descriptionCall, descriptionOps,
          cameraOptions, optionsCall, optionsOps,
          camera, cameraCall, cameraOps,
          tracker, mouseEvents,
          unitVector, unitOther, unitCall, unitOps,
          gamePc, gameLoop, meshObjects, gameEntities, meshHeap, gameFrames, staleUse,
          transformValue, transformArgs, entityArgs,
          materialA, materialB, materialCall, materialOps,
          entities, randomCall, seedCheck, errno,
          indexing, gameMeshCount, initRan,
          returned>>

\* The history of a call that is not a drain.
Called(op) ==
    [fault |-> FALSE, emptyPeek |-> FALSE, local |-> local,
     popped |-> <<>>, resolved |-> <<>>, op |-> op, buffer |-> transformBuffer,
     drained |-> <<>>]

\* The history of a call that drained the queue `queue`, with result d.
CalledDrain(op, queue, d) ==
    [fault |-> d.fault, emptyPeek |-> d.emptyPeek, local |-> local,
     popped |-> d.popped, resolved |-> d.resolved, op |-> op,
     buffer |-> transformBuffer, drained |-> queue]

\* The entities the constructors of the model build.
EntityStarts ==
    {EntityDefault} \cup {EntityAtScaled(p, s) : p \in StartPositions, s \in StartScales}



\* ------------------------------------------------------------------------
\* GameEntity, scoped generation: the public calls.
\* ------------------------------------------------------------------------

\* Move that leaves the scope argument to its default (S_ABSOLUTE).
MoveEnqueue_default(queue, x, y, z) == push_position(queue, XMFLOAT3(x, y, z), S_ABSOLUTE)

\* GameEntity::Move: the buffer after the call.
MoveEnqueue(queue, x, y, z) == push_position(queue, XMFLOAT3(x, y, z), S_RELATIVE)

\* GameEntity::Scale
ScaleEnqueue(queue, x, y, z) == push_scale(queue, XMFLOAT3(x, y, z), S_RELATIVE)

\* GameEntity::Rotate
RotateEnqueue(queue, pitchY, yawX, rollZ) ==
    LET quat == XMQuaternionRotationRollPitchYaw(pitchY, yawX, rollZ)
    IN push_rotation(queue, quat, S_RELATIVE)

\* GameEntity::MoveTo
MoveToEnqueue(queue, x, y, z) == push_position(queue, XMFLOAT3(x, y, z), S_ABSOLUTE)

\* GameEntity::ScaleTo
ScaleToEnqueue(queue, x, y, z) == push_scale(queue, XMFLOAT3(x, y, z), S_ABSOLUTE)

\* GameEntity::RotateTo
RotateToEnqueue(queue, pitchY, yawX, rollZ) ==
    LET orientation == XMQuaternionIdentity
        rotation == XMQuaternionRotationRollPitchYaw(pitchY, yawX, rollZ)
        result == XMQuaternionMultiply(orientation, rotation)
    IN push_rotation(queue, result, S_ABSOLUTE)

\* A call that only enqueues: the local transform is not touched.
Enqueue(op, queue) ==
    /\ pushes < MaxPushes
    /\ transformBuffer' = queue
    /\ local' = local
    /\ call' = Called(op)
    /\ pushes' = pushes + 1
    /\ UNCHANGED <<pairVars, bufferVars, descriptionVars, optionVars, cameraVars, mouseVars, unitVars, meshVars, valueVars, materialVars, randomVars, lifeVars, copyVars>>

Move(x, y, z) == Enqueue("Move", MoveEnqueue(transformBuffer, x, y, z))

Scale(x, y, z) == Enqueue("Scale", ScaleEnqueue(transformBuffer, x, y, z))

Rotate(pitchY, yawX, rollZ) ==
    Enqueue("Rotate", RotateEnqueue(transformBuffer, pitchY, yawX, rollZ))

MoveTo(x, y, z) == Enqueue("MoveTo", MoveToEnqueue(transformBuffer, x, y, z))

ScaleTo(x, y, z) == Enqueue("ScaleTo", ScaleToEnqueue(transformBuffer, x, y, z))

RotateTo(pitchY, yawX, rollZ) ==
    Enqueue("RotateTo", RotateToEnqueue(transformBuffer, pitchY, yawX, rollZ))

\* GameEntity::UpdatePosition(request, scope)
UpdatePosition(request, scope) ==
    Enqueue("UpdatePosition", push_position(transformBuffer, request, scope))

\* GameEntity::UpdateScale(request, scope)
UpdateScale(request, scope) ==
    Enqueue("UpdateScale", push_scale(transformBuffer, request, scope))

\* GameEntity::UpdateRotation(request, scope)
UpdateRotation(request, scope) ==
    Enqueue("UpdateRotation", push_rotation(transformBuffer, request, scope))

\* GameEntity::HandleTransformations (protected), called on its own.
HandleTransformations ==
    LET d == DrainFrom(local, transformBuffer)
    IN /\ local' = d.local
       /\ transformBuffer' = d.queue
       /\ call' = CalledDrain("HandleTransformations", transformBuffer, d)
       /\ pushes' = pushes
       /\ UNCHANGED <<pairVars, bufferVars, descriptionVars, optionVars, cameraVars, mouseVars, unitVars, meshVars, valueVars, materialVars, randomVars, lifeVars, copyVars>>

\* pulse = 0.15f + (0.05f * -sinf(totalTime)), in units of 0.05.
Pulse(sinTotal) == 3 + (1 * (0 - sinTotal))

\* The buffer Update hands to the drain: its ScaleTo(pulse, pulse, 1.0f)
\* comes after everything enqueued before the call.
UpdateEnqueue(queue, sinTotal) ==
    ScaleToEnqueue(queue, Pulse(sinTotal), Pulse(sinTotal), One)

\* GameEntity::Update(deltaTime, totalTime): the Move and Rotate of the
\* animation are commented out, the ScaleTo is not.
Update(sinTotal) ==
    LET queue == UpdateEnqueue(transformBuffer, sinTotal)
        d == DrainFrom(local, queue)
    IN /\ local' = d.local
       /\ transformBuffer' = d.queue
       /\ call' = CalledDrain("Update", queue, d)
       /\ pushes' = pushes
       /\ UNCHANGED <<pairVars, bufferVars, descriptionVars, optionVars, cameraVars, mouseVars, unitVars, meshVars, valueVars, materialVars, randomVars, lifeVars, copyVars>>

NextEntity ==
    \/ \E d \in MoveDeltas : Move(d[1], d[2], d[3])
    \/ \E d \in ScaleDeltas : Scale(d[1], d[2], d[3])
    \/ \E a \in RotateAngles : Rotate(a[1], a[2], a[3])
    \/ \E p \in MoveTargets : MoveTo(p[1], p[2], p[3])
    \/ \E s \in ScaleTargets : ScaleTo(s[1], s[2], s[3])
    \/ \E a \in RotateToAngles : RotateTo(a[1], a[2], a[3])
    \/ \E r \in PositionRequests, scope \in TransformScope : UpdatePosition(r, scope)
    \/ \E r \in ScaleRequests, scope \in TransformScope : UpdateScale(r, scope)
    \/ \E r \in RotationRequests, scope \in TransformScope : UpdateRotation(r, scope)
    \/ HandleTransformations
    \/ \E sinTotal \in SinValues : Update(sinTotal)

\* ------------------------------------------------------------------------
\* TransformBuffer, pair generation (TransformPair = type, data).
\* ------------------------------------------------------------------------

pair_transformation(type, transformation) == [first |-> type, second |-> transformation]

\* push(queue, type, XMFLOAT4 data)
pair_push4(queue, type, data) == Append(queue, pair_transformation(type, data))

\* push(queue, type, XMFLOAT3 data)
pair_push3(queue, type, data) == pair_push4(queue, type, ConvertTo4(data, 0))

pair_push_position(queue, source) == pair_push3(queue, T_POSITION, source)

pair_push_scale(queue, source) == pair_push3(queue, T_SCALE, source)

pair_push_rotation(queue, source) == pair_push4(queue, T_ROTATION, source)

peek_pair(queue) == Head(queue)

pair_peek_float4(queue) == peek_pair(queue).second

pair_peek_float3(queue) == ConvertTo3(pair_peek_float4(queue))

\* pop(TransformQueue& queue) of the pair generation.
pair_pop(queue) == IF ~is_empty(queue) THEN Tail(queue) ELSE queue

\* ------------------------------------------------------------------------
\* GameEntity, pair generation.
\* ------------------------------------------------------------------------

\* GameEntity::Move: the target is computed from the local transform at the
\* time of the call and enqueued as an overwrite.
PairMoveEnqueue(t, queue, x, y, z) ==
    LET target == AddFloat3(GetPosition(t), XMFLOAT3(x, y, z))
    IN pair_push_position(queue, target)

\* GameEntity::Scale
PairScaleEnqueue(t, queue, x, y, z) ==
    LET target == AddFloat3(GetScale(t), XMFLOAT3(x, y, z))
    IN pair_push_scale(queue, target)

\* GameEntity::Rotate: the product is computed and dropped; the current
\* orientation is what gets stored and pushed.
PairRotateEnqueue(t, queue, pitchY, yawX, rollZ) ==
    LET orientation == GetRotation(t)
        rotation == XMQuaternionRotationRollPitchYaw(pitchY, yawX, rollZ)
        unused == XMQuaternionMultiply(orientation, rotation)
        target == orientation
    IN pair_push_rotation(queue, target)

PairMoveToEnqueue(queue, x, y, z) == pair_push_position(queue, XMFLOAT3(x, y, z))

PairScaleToEnqueue(queue, x, y, z) == pair_push_scale(queue, XMFLOAT3(x, y, z))

PairRotateToEnqueue(queue, pitchY, yawX, rollZ) ==
    pair_push_rotation(queue, XMQuaternionRotationRollPitchYaw(pitchY, yawX, rollZ))

\* HandlePosition / HandleScale / HandleRotation of the pair generation.
PairHandlePosition(t, transformation) == SetPosition(t, transformation)

PairHandleScale(t, transformation) == SetScale(t, transformation)

PairHandleRotation(t, transformation) == SetRotation(t, transformation)

PairDrainStep(d) ==
    LET type == peek_pair(d.queue).first
    IN [queue |-> pair_pop(d.queue),
        local |-> CASE type = T_POSITION ->
                         PairHandlePosition(d.local, pair_peek_float3(d.queue))
                    [] type = T_SCALE ->
                         PairHandleScale(d.local, pair_peek_float3(d.queue))
                    [] type = T_ROTATION ->
                         PairHandleRotation(d.local, pair_peek_float4(d.queue))
                    [] OTHER -> d.local]

RECURSIVE PairDrainLoop(_)
PairDrainLoop(d) == IF is_empty(d.queue) THEN d ELSE PairDrainLoop(PairDrainStep(d))

\* GameEntity::HandleTransformations of the pair generation.
PairDrainFrom(t, queue) == PairDrainLoop([queue |-> queue, local |-> t])

\* Since the last Update: the deltas given to Move, and the other commands.
MovesSoFar == IF pairCall.op \in {"GameEntity", "Update"} THEN <<>> ELSE pairCall.moves

OthersSoFar == IF pairCall.op \in {"GameEntity", "Update"} THEN 0 ELSE pairCall.others



PairEnqueue(op, queue, moves, others) ==
    /\ pairPushes < MaxPushes
    /\ pairBuffer' = queue
    /\ pairLocal' = pairLocal
    /\ pairCall' = [local |-> pairLocal, op |-> op, buffer |-> pairBuffer,
                    moves |-> moves, others |-> others]
    /\ pairPushes' = pairPushes + 1
    /\ UNCHANGED <<entityVars, bufferVars, descriptionVars, optionVars, cameraVars, mouseVars, unitVars, meshVars, valueVars, materialVars, randomVars, lifeVars, copyVars>>

PairOther(op, queue) == PairEnqueue(op, queue, MovesSoFar, OthersSoFar + 1)

PairMove(x, y, z) ==
    PairEnqueue("Move", PairMoveEnqueue(pairLocal, pairBuffer, x, y, z),
                Append(MovesSoFar, XMFLOAT3(x, y, z)), OthersSoFar)

PairScale(x, y, z) == PairOther("Scale", PairScaleEnqueue(pairLocal, pairBuffer, x, y, z))

PairRotate(pitchY, yawX, rollZ) ==
    PairOther("Rotate", PairRotateEnqueue(pairLocal, pairBuffer, pitchY, yawX, rollZ))

PairMoveTo(x, y, z) == PairOther("MoveTo", PairMoveToEnqueue(pairBuffer, x, y, z))

PairScaleTo(x, y, z) == PairOther("ScaleTo", PairScaleToEnqueue(pairBuffer, x, y, z))

PairRotateTo(pitchY, yawX, rollZ) ==
    PairOther("RotateTo", PairRotateToEnqueue(pairBuffer, pitchY, yawX, rollZ))

\* GameEntity::UpdatePosition(request) of the pair generation.
PairUpdatePosition(request) ==
    PairOther("UpdatePosition", pair_push_position(pairBuffer, request))

PairUpdateScale(request) ==
    PairOther("UpdateScale", pair_push_scale(pairBuffer, request))

PairUpdateRotation(request) ==
    PairOther("UpdateRotation", pair_push_rotation(pairBuffer, request))

\* GameEntity::Update of the pair generation: the drain and nothing else.
PairUpdate ==
    LET d == PairDrainFrom(pairLocal, pairBuffer)
    IN /\ pairLocal' = d.local
       /\ pairBuffer' = d.queue
       /\ pairCall' = [local |-> pairLocal, op |-> "Update", buffer |-> pairBuffer,
                       moves |-> MovesSoFar, others |-> OthersSoFar]
       /\ pairPushes' = pairPushes
       /\ UNCHANGED <<entityVars, bufferVars, descriptionVars, optionVars, cameraVars, mouseVars, unitVars, meshVars, valueVars, materialVars, randomVars, lifeVars, copyVars>>

NextPair ==
    \/ \E d \in MoveDeltas : PairMove(d[1], d[2], d[3])
    \/ \E d \in ScaleDeltas : PairScale(d[1], d[2], d[3])
    \/ \E a \in RotateAngles : PairRotate(a[1], a[2], a[3])
    \/ \E p \in MoveTargets : PairMoveTo(p[1], p[2], p[3])
    \/ \E s \in ScaleTargets : PairScaleTo(s[1], s[2], s[3])
    \/ \E a \in RotateToAngles : PairRotateTo(a[1], a[2], a[3])
    \/ \E r \in PositionRequests : PairUpdatePosition(r)
    \/ \E r \in ScaleRequests : PairUpdateScale(r)
    \/ \E r \in RotationRequests : PairUpdateRotation(r)
    \/ PairUpdate

\* ------------------------------------------------------------------------
\* A stand-alone TransformBuffer (scoped generation) and its public calls.
\* ------------------------------------------------------------------------

\* Payloads pushed onto the stand-alone buffer.
BufferFloat3 == {<<1, 0, -1>>}

BufferFloat4 == {<<0, 0, 0, 1>>}


BufferCalled(op, queue, fault) ==
    /\ bufferOps < MaxBufferOps
    /\ internalQueue' = queue
    /\ bufferCall' = [queue |-> internalQueue, fault |-> fault, op |-> op]
    /\ bufferOps' = bufferOps + 1
    /\ UNCHANGED <<entityVars, pairVars, descriptionVars, optionVars, cameraVars, mouseVars, unitVars, meshVars, valueVars, materialVars, randomVars, lifeVars, copyVars>>

TB_push_position(source, scope) ==
    BufferCalled("push_position", push_position(internalQueue, source, scope), FALSE)

TB_push_scale(source, scope) ==
    BufferCalled("push_scale", push_scale(internalQueue, source, scope), FALSE)

TB_push_rotation(source, scope) ==
    BufferCalled("push_rotation", push_rotation(internalQueue, source, scope), FALSE)

\* The default argument of every push_* overload: scope = S_ABSOLUTE.
DefaultScope == S_ABSOLUTE

\* push_position(source), push_scale(source), push_rotation(source): the
\* calls that leave the scope to its default.
TB_push_position_default(source) ==
    BufferCalled("push_position_default",
                 push_position(internalQueue, source, DefaultScope), FALSE)

TB_push_scale_default(source) ==
    BufferCalled("push_scale_default", push_scale(internalQueue, source, DefaultScope), FALSE)

TB_push_rotation_default(source) ==
    BufferCalled("push_rotation_default",
                 push_rotation(internalQueue, source, DefaultScope), FALSE)

\* TransformBuffer::pop()
TB_pop ==
    LET r == pop(internalQueue)
    IN BufferCalled("pop", r.queue, r.fault)

\* TransformBuffer::clear(): swap with an empty queue.
TB_clear == BufferCalled("clear", <<>>, FALSE)

NextBuffer ==
    \/ \E v \in BufferFloat3, scope \in TransformScope : TB_push_position(v, scope)
    \/ \E v \in BufferFloat3, scope \in TransformScope : TB_push_scale(v, scope)
    \/ \E q \in BufferFloat4, scope \in TransformScope : TB_push_rotation(q, scope)
    \/ \E v \in BufferFloat3 : TB_push_position_default(v)
    \/ \E v \in BufferFloat3 : TB_push_scale_default(v)
    \/ \E q \in BufferFloat4 : TB_push_rotation_default(q)
    \/ TB_pop
    \/ TB_clear

\* ------------------------------------------------------------------------
\* Specifications: one per component, the others stay as constructed.
\* ------------------------------------------------------------------------

\* ------------------------------------------------------------------------
\* Camera.cpp: UnitVector.
\* ------------------------------------------------------------------------

\* The result of 0.0f / 0.0f.
NaN == -1000

\* UnitVector::normalize: each component divided by the magnitude (exact on
\* the axis-aligned vectors of the model; a zero vector gives 0/0).
normalize(data) ==
    LET mag == ISqrt((data[1] * data[1]) + (data[2] * data[2]) + (data[3] * data[3]))
    IN IF mag = 0 THEN <<NaN, NaN, NaN>>
       ELSE <<DivTrunc(data[1], mag), DivTrunc(data[2], mag), DivTrunc(data[3], mag)>>

\* UnitVector::UnitVector(x, y, z) and UnitVector::Set(x, y, z)
UnitVector(x, y, z) == normalize(<<x, y, z>>)

GetDefaultUp == UnitVector(0, 1, 0)

GetDefaultForward == UnitVector(0, 0, 1)

\* ------------------------------------------------------------------------
\* Camera.cpp: TransformDescription.  Angles are in units of pi.
\* ------------------------------------------------------------------------

XMQuaternionConjugate(q) == <<0 - q[1], 0 - q[2], 0 - q[3], q[4]>>

\* DirectXMath: XMVector3Rotate(V, RotationQuaternion)
XMVector3Rotate(V, RotationQuaternion) ==
    LET A == <<V[1], V[2], V[3], 0>>
        Q == XMQuaternionConjugate(RotationQuaternion)
        Result == XMQuaternionMultiply(Q, A)
    IN ConvertTo3(XMQuaternionMultiply(Result, RotationQuaternion))

\* The quaternion CalculateHeading and CalculateUp build: pitch from
\* orientation.y, yaw from orientation.x, roll from orientation.z.
OrientationQuaternion(orientation) ==
    XMQuaternionRotationRollPitchYaw(orientation[2], orientation[1], orientation[3])

\* A CalculateHeading that keeps the cached heading.
CalculateHeading_keep(td) == td

\* TransformDescription::CalculateHeading
CalculateHeading(td) ==
    LET direction == XMVector3Rotate(GetDefaultForward, OrientationQuaternion(td.orientation))
    IN [td EXCEPT !.heading = UnitVector(direction[1], direction[2], direction[3])]

\* TransformDescription::CalculateUp
CalculateUp(td) ==
    LET relative_up == XMVector3Rotate(GetDefaultUp, OrientationQuaternion(td.orientation))
    IN [td EXCEPT !.up = UnitVector(relative_up[1], relative_up[2], relative_up[3])]

\* TransformDescription::TransformDescription(_position, _rotation)
TransformDescription(position, rotation) ==
    CalculateUp(CalculateHeading(
        [orientation |-> rotation, heading |-> GetDefaultForward,
         up |-> GetDefaultUp, position |-> position,
         position_start |-> position, orientation_start |-> rotation]))

\* TransformDescription::TransformDescription() and GetDefaultTransform()
GetDefaultTransform == TransformDescription(XMFLOAT3(0, 0, 0), XMFLOAT3(0, 0, 0))

\* swap(lhs, rhs): every member is swapped.
TD_swap(lhs, rhs) == [lhs |-> rhs, rhs |-> lhs]

\* The copy constructor: every member is assigned.
TD_copy(other) ==
    [orientation |-> other.orientation, heading |-> other.heading,
     up |-> other.up, position |-> other.position,
     position_start |-> other.position_start, orientation_start |-> other.orientation_start]

\* The move constructor: a default object swapped with other.
TD_move(other) == TD_swap(GetDefaultTransform, other)

\* operator=(TransformDescription other): *this swapped with the copy.
TD_assign(this, other) == TD_swap(this, TD_copy(other)).lhs

\* TransformDescription::Translate(delta)
TD_Translate(td, delta) == [td EXCEPT !.position = AddFloat3(td.position, delta)]

\* TransformDescription::Rotate(delta)
TD_Rotate(td, delta) ==
    CalculateUp(CalculateHeading([td EXCEPT !.orientation = AddFloat3(td.orientation, delta)]))

\* TransformDescription::SetPosition(absolute)
TD_SetPosition(td, absolute) == [td EXCEPT !.position = absolute]

\* TransformDescription::SetRotation(absolute)
TD_SetRotation(td, absolute) ==
    CalculateUp(CalculateHeading([td EXCEPT !.orientation = absolute]))

\* A Reset that restores the position only.
TD_Reset_position(td) == TD_SetPosition(td, td.position_start)

\* TransformDescription::Reset
TD_Reset(td) == TD_SetRotation(TD_SetPosition(td, td.position_start), td.orientation_start)

\* The test both UpdatePosition and UpdateRotation make on their argument.
SpeedSumIsNotZero(speed) == speed[1] + speed[2] + speed[3] # 0

\* TransformDescription::UpdatePosition(speed, isRelative)
TD_UpdatePosition(td, speed, isRelative) ==
    IF SpeedSumIsNotZero(speed)
    THEN IF ~isRelative THEN TD_SetPosition(td, speed) ELSE TD_Translate(td, speed)
    ELSE td

\* TransformDescription::UpdateRotation(speed, isRelative)
TD_UpdateRotation(td, speed, isRelative) ==
    IF SpeedSumIsNotZero(speed)
    THEN CalculateUp(CalculateHeading(
             IF ~isRelative THEN TD_SetRotation(td, speed) ELSE TD_Rotate(td, speed)))
    ELSE td

\* speed * deltaTime, component by component.
ScaleFloat3(speed, deltaTime) ==
    XMFLOAT3(speed[1] * deltaTime, speed[2] * deltaTime, speed[3] * deltaTime)

\* TransformDescription::UpdatePosition(deltaTime, totalTime, speed, isRelative)
TD_UpdatePositionTimed(td, deltaTime, speed, isRelative) ==
    IF SpeedSumIsNotZero(speed)
    THEN IF ~isRelative THEN TD_SetPosition(td, ScaleFloat3(speed, deltaTime))
         ELSE TD_Translate(td, ScaleFloat3(speed, deltaTime))
    ELSE td

\* TransformDescription::UpdateRotation(deltaTime, totalTime, speed, isRelative)
TD_UpdateRotationTimed(td, deltaTime, speed, isRelative) ==
    IF SpeedSumIsNotZero(speed)
    THEN CalculateUp(CalculateHeading(
             IF ~isRelative THEN TD_SetRotation(td, ScaleFloat3(speed, deltaTime))
             ELSE TD_Rotate(td, ScaleFloat3(speed, deltaTime))))
    ELSE td

\* ------------------------------------------------------------------------
\* Camera.cpp: CameraOptions.  Field of view in units of 0.25, width and
\* height in pixels, clipping planes in units of 0.1; a ratio of two floats
\* is kept as a reduced fraction <<numerator, denominator>>.
\* ------------------------------------------------------------------------

\* const float PI, as the factor SetFieldOfView multiplies by.
PI == 355

RECURSIVE Gcd(_, _)
Gcd(a, b) == IF b = 0 THEN a ELSE Gcd(b, a % b)

Abs(c) == IF c < 0 THEN 0 - c ELSE c

\* The float a / b (a division by zero gives an infinity or 0/0, kept with
\* a zero denominator).
Ratio(a, b) ==
    IF b = 0 THEN <<Sgn(a), 0>>
    ELSE LET g == Gcd(Abs(a), Abs(b))
         IN <<Sgn(b) * (a \div g), Abs(b) \div g>>

\* CameraOptions::SetFieldOfView
CO_SetFieldOfView(o, value) == [o EXCEPT !.fieldOfView = value * PI]

\* A SetWidth that refreshes the cached aspect ratio.
CO_SetWidth_refresh(o, value) ==
    [o EXCEPT !.width = value, !.aspectRatio = Ratio(value, o.height)]

\* CameraOptions::SetWidth
CO_SetWidth(o, value) == [o EXCEPT !.width = value]

\* CameraOptions::SetHeight
CO_SetHeight(o, value) == [o EXCEPT !.height = value]

\* CameraOptions::SetWidthByAspectRatio(ratio, height): width = ratio * height
\* (a whole number of pixels on the ratios and heights of the model).
CO_SetWidthByAspectRatio(o, ratio, height) ==
    [o EXCEPT !.width = (ratio[1] * height) \div ratio[2], !.height = height]

\* CameraOptions::SetHeightByAspectRatio(ratio, width): height = width / ratio
CO_SetHeightByAspectRatio(o, ratio, width) ==
    [o EXCEPT !.width = width, !.height = (width * ratio[2]) \div ratio[1]]

\* CameraOptions::SetNearClippingPlane
CO_SetNearClippingPlane(o, value) == [o EXCEPT !.nearPlane = value]

\* CameraOptions::SetFarClippingPlane
CO_SetFarClippingPlane(o, value) == [o EXCEPT !.farPlane = value]

\* CameraOptions::UpdateAspectRatio
CO_UpdateAspectRatio(o) == [o EXCEPT !.aspectRatio = Ratio(o.width, o.height)]

\* CameraOptions::CameraOptions(fov, w, h, nearClip, farClip): the member
\* initialisers, then the five setters.
CameraOptions(fov, w, h, nearClip, farClip) ==
    CO_SetFarClippingPlane(CO_SetNearClippingPlane(CO_SetHeight(CO_SetWidth(
        CO_SetFieldOfView(
            [fieldOfView |-> fov, width |-> w, aspectRatio |-> Ratio(w, h), height |-> h,
             nearPlane |-> nearClip, farPlane |-> farClip],
            fov), w), h), nearClip), farClip)

\* CameraOptions::CameraOptions(): 0.25f, 1280, 720, 0.1f, 100.0f
GetDefaultCameraOptions == CameraOptions(1, 1280, 720, 1, 1000)

\* CameraOptions::GetFieldOfView: fieldOfView / PI
GetFieldOfView(o) == o.fieldOfView \div PI

GetWidth(o) == o.width

GetHeight(o) == o.height

GetAspectRatio(o) == o.aspectRatio

GetNearClippingPlane(o) == o.nearPlane

GetFarClippingPlane(o) == o.farPlane

\* ------------------------------------------------------------------------
\* Camera.cpp: Camera.  A matrix is a tuple of four rows of four entries.
\* ------------------------------------------------------------------------

Cross3(a, b) ==
    << (a[2] * b[3]) - (a[3] * b[2]),
       (a[3] * b[1]) - (a[1] * b[3]),
       (a[1] * b[2]) - (a[2] * b[1]) >>

Dot3(a, b) == (a[1] * b[1]) + (a[2] * b[2]) + (a[3] * b[3])

\* DirectXMath: XMVector3Normalize (a zero vector stays zero).
XMVector3Normalize(v) ==
    LET l == ISqrt(Dot3(v, v))
    IN IF l = 0 THEN <<0, 0, 0>>
       ELSE <<DivTrunc(v[1], l), DivTrunc(v[2], l), DivTrunc(v[3], l)>>

\* DirectXMath: XMMatrixTranspose
XMMatrixTranspose(M) == [i \in 1..4 |-> [j \in 1..4 |-> M[j][i]]]

\* DirectXMath: XMMatrixLookToLH(EyePosition, EyeDirection, UpDirection)
XMMatrixLookToLH(EyePosition, EyeDirection, UpDirection) ==
    LET R2 == XMVector3Normalize(EyeDirection)
        R0 == XMVector3Normalize(Cross3(UpDirection, R2))
        R1 == Cross3(R2, R0)
        NegEyePosition == <<0 - EyePosition[1], 0 - EyePosition[2], 0 - EyePosition[3]>>
        D0 == Dot3(R0, NegEyePosition)
        D1 == Dot3(R1, NegEyePosition)
        D2 == Dot3(R2, NegEyePosition)
    IN XMMatrixTranspose(<< <<R0[1], R0[2], R0[3], D0>>,
                            <<R1[1], R1[2], R1[3], D1>>,
                            <<R2[1], R2[2], R2[3], D2>>,
                            <<0, 0, 0, 1>> >>)

\* An entry of a projection matrix: <<n, d, f>> stands for n / d, times the
\* cotangent of half the angle f when f is not 0.
Entry(n, d, f) == <<n, d, f>>

\* DirectXMath: XMMatrixPerspectiveFovLH(FovAngleY, AspectRatio, NearZ, FarZ):
\* Height = cot(FovAngleY / 2), Width = Height / AspectRatio,
\* fRange = FarZ / (FarZ - NearZ).
XMMatrixPerspectiveFovLH(FovAngleY, AspectRatio, NearZ, FarZ) ==
    LET Width == Entry(AspectRatio[2], AspectRatio[1], FovAngleY)
        Height == Entry(1, 1, FovAngleY)
        fRange == Ratio(FarZ, FarZ - NearZ)
        offset == Ratio(0 - (FarZ * NearZ), FarZ - NearZ)
        zero == Entry(0, 1, 0)
    IN << <<Width, zero, zero, zero>>,
          <<zero, Height, zero, zero>>,
          <<zero, zero, Entry(fRange[1], fRange[2], 0), Entry(1, 1, 0)>>,
          <<zero, zero, Entry(offset[1], offset[2], 0), zero>> >>

\* Camera::CalculateViewMatrix
CalculateViewMatrix(c) ==
    XMMatrixTranspose(
        XMMatrixLookToLH(c.transform.position, c.transform.heading, c.transform.up))

\* Camera::CalculateProjectionMatrix
CalculateProjectionMatrix(c) ==
    XMMatrixTranspose(
        XMMatrixPerspectiveFovLH(GetFieldOfView(c.settings), GetAspectRatio(c.settings),
                                 GetNearClippingPlane(c.settings),
                                 GetFarClippingPlane(c.settings)))

\* Camera::UpdateViewMatrix
UpdateViewMatrix(c) == [c EXCEPT !.view = CalculateViewMatrix(c)]

\* Camera::UpdateProjectionMatrix
UpdateProjectionMatrix(c) == [c EXCEPT !.projection = CalculateProjectionMatrix(c)]

\* Camera::OnResize
Camera_OnResize(c) ==
    UpdateProjectionMatrix([c EXCEPT !.settings = CO_UpdateAspectRatio(c.settings)])

\* Camera::Camera(options, transform): view() and projection() hold what
\* the default constructor of XMFLOAT4X4 leaves, given here as view and
\* projection; neither matrix is calculated.
Camera(options, transform, view, projection) ==
    [transform |-> transform, settings |-> options, view |-> view,
     projection |-> projection]

\* Camera::SetFOV
Camera_SetFOV(c, fov) == [c EXCEPT !.settings = CO_SetFieldOfView(c.settings, fov)]

\* A SetDimensions that leaves the projection matrix as it was.
Camera_SetDimensions_stale(c, width, height) ==
    [c EXCEPT !.settings = CO_UpdateAspectRatio(CO_SetHeight(CO_SetWidth(c.settings, width),
                                                             height))]

\* Camera::SetDimensions
Camera_SetDimensions(c, width, height) ==
    Camera_OnResize([c EXCEPT !.settings = CO_SetHeight(CO_SetWidth(c.settings, width),
                                                        height)])

\* Camera::SetClippingPlane
Camera_SetClippingPlane(c, nearPlane, farPlane) ==
    [c EXCEPT !.settings = CO_SetFarClippingPlane(
                               CO_SetNearClippingPlane(c.settings, nearPlane), farPlane)]

\* Camera::Reset
Camera_Reset(c) ==
    UpdateProjectionMatrix(UpdateViewMatrix([c EXCEPT !.transform = TD_Reset(c.transform)]))

\* Camera::UpdatePosition(speed, isRelative)
Camera_UpdatePosition(c, speed, isRelative) ==
    UpdateViewMatrix([c EXCEPT !.transform = TD_UpdatePosition(c.transform, speed, isRelative)])

\* Camera::UpdateRotation(speed, isRelative)
Camera_UpdateRotation(c, speed, isRelative) ==
    UpdateViewMatrix([c EXCEPT !.transform = TD_UpdateRotation(c.transform, speed, isRelative)])

\* Camera::UpdatePosition(deltaTime, totalTime, speed, isRelative)
Camera_UpdatePositionTimed(c, deltaTime, speed, isRelative) ==
    UpdateViewMatrix([c EXCEPT !.transform =
                          TD_UpdatePositionTimed(c.transform, deltaTime, speed, isRelative)])

\* Camera::UpdateRotation(deltaTime, totalTime, speed, isRelative)
Camera_UpdateRotationTimed(c, deltaTime, speed, isRelative) ==
    UpdateViewMatrix([c EXCEPT !.transform =
                          TD_UpdateRotationTimed(c.transform, deltaTime, speed, isRelative)])

\* Camera::MoveBy
Camera_MoveBy(c, delta) ==
    UpdateViewMatrix([c EXCEPT !.transform = TD_Translate(c.transform, delta)])

\* A MoveTo that leaves the view matrix as it was.
Camera_MoveTo_stale(c, absolute) ==
    [c EXCEPT !.transform = TD_SetPosition(c.transform, absolute)]

\* Camera::MoveTo
Camera_MoveTo(c, absolute) ==
    UpdateViewMatrix([c EXCEPT !.transform = TD_SetPosition(c.transform, absolute)])

\* Camera::RotateBy
Camera_RotateBy(c, delta) ==
    UpdateViewMatrix([c EXCEPT !.transform = TD_Rotate(c.transform, delta)])

\* Camera::RotateTo
Camera_RotateTo(c, absolute) ==
    UpdateViewMatrix([c EXCEPT !.transform = TD_SetRotation(c.transform, absolute)])

\* ------------------------------------------------------------------------
\* Mesh and the shared_ptr<Mesh> that Game and GameEntity hold.  A Mesh is
\* named by its index in Game::meshObjects; 0 is an empty pointer.
\* ------------------------------------------------------------------------

\* Game::meshCount once CreateBasicGeometry has run (9 in the source).
MeshCount == 2

\* Game::gameEntityCount (18 in the source).
GameEntityCount == 3

\* Game::meshCount as Game::Game leaves it (3 in the source).
ConstructedMeshCount == 1

MeshIds == 1..MeshCount

\* A Mesh that was not constructed yet.
NoMesh ==
    [useCount |-> 0, vertexBuffer |-> FALSE, indexBuffer |-> FALSE,
     vertexReleases |-> 0, indexReleases |-> 0]

NoMeshes == [id \in MeshIds |-> NoMesh]

\* std::make_shared<Mesh>(...): Mesh::Mesh creates both buffers, and one
\* pointer owns the object.
Mesh_make(heap, id) ==
    [heap EXCEPT ![id] = [useCount |-> 1, vertexBuffer |-> TRUE, indexBuffer |-> TRUE,
                          vertexReleases |-> 0, indexReleases |-> 0]]

\* Mesh::~Mesh(): each buffer that is held is released, then set to nullptr.
Mesh_destroy(mesh) ==
    [mesh EXCEPT !.vertexReleases = IF mesh.vertexBuffer THEN @ + 1 ELSE @,
                 !.indexReleases = IF mesh.indexBuffer THEN @ + 1 ELSE @,
                 !.vertexBuffer = FALSE,
                 !.indexBuffer = FALSE]

\* A reset that destroys the Mesh whoever else holds it.
SharedPtr_reset_delete(heap, id) ==
    IF id = 0 THEN heap
    ELSE [heap EXCEPT ![id] = Mesh_destroy([heap[id] EXCEPT !.useCount = @ - 1])]

\* shared_ptr<Mesh>::reset() and ~shared_ptr on a pointer to mesh id: the
\* use count drops, and the last owner destroys the Mesh.
SharedPtr_reset(heap, id) ==
    IF id = 0 THEN heap
    ELSE IF heap[id].useCount = 1
         THEN [heap EXCEPT ![id] = Mesh_destroy([heap[id] EXCEPT !.useCount = 0])]
         ELSE [heap EXCEPT ![id].useCount = @ - 1]

\* The copy of a shared_ptr<Mesh>: one more owner.
SharedPtr_copy(heap, id) ==
    IF id = 0 THEN heap ELSE [heap EXCEPT ![id].useCount = @ + 1]

\* ------------------------------------------------------------------------
\* Transform.h: Material, two shader handles (0 is nullptr).
\* ------------------------------------------------------------------------

\* Material::Material()
Material_default == [vertexShader |-> 0, pixelShader |-> 0]

\* Material::Material(_vShd, _pShd)
Material(vShd, pShd) == [vertexShader |-> vShd, pixelShader |-> pShd]

\* A swap that exchanges both handles.
Material_swap_both(lhs, rhs) == [lhs |-> rhs, rhs |-> lhs]

\* swap(Material& lhs, Material& rhs): swap(lhs.vertexShader,
\* rhs.vertexShader), written twice
Material_swap(lhs, rhs) ==
    LET once == [lhs |-> [lhs EXCEPT !.vertexShader = rhs.vertexShader],
                 rhs |-> [rhs EXCEPT !.vertexShader = lhs.vertexShader]]
    IN  [lhs |-> [once.lhs EXCEPT !.vertexShader = once.rhs.vertexShader],
         rhs |-> [once.rhs EXCEPT !.vertexShader = once.lhs.vertexShader]]

\* Material::Material(const Material& other)
Material_copy(other) ==
    [vertexShader |-> other.vertexShader, pixelShader |-> other.pixelShader]

\* Material::Material(Material&& other): the new object (lhs) and what is
\* left in other (rhs)
Material_move(other) == Material_swap(Material_default, other)

\* Material::operator=(Material other), other a copy of the right-hand side
Material_assign(this, other) == Material_swap(this, Material_copy(other)).lhs

\* Material::operator=(Material other), other moved from the right-hand
\* side: the target (lhs) and what is left in the right-hand side (rhs)
Material_assign_move(this, other) ==
    [lhs |-> Material_swap(this, Material_move(other).lhs).lhs,
     rhs |-> Material_move(other).rhs]

ConstructedMaterial == [op |-> "Material()", lhs |-> Material_default, rhs |-> Material_default]

\* ------------------------------------------------------------------------
\* Camera.cpp: MouseTracker.  Cursor positions are in units of 400 * pi
\* pixels, the displacement Game::OnMouseMove turns into a rotation of pi.
\* ------------------------------------------------------------------------

XMFLOAT2(x, y) == <<x, y>>

\* MouseTracker::MouseTracker()
MouseTracker ==
    [previousButtonState |-> FALSE, currentButtonState |-> FALSE,
     previousMousePosition |-> XMFLOAT2(0, 0), currentMousePosition |-> XMFLOAT2(0, 0)]

\* An Update that keeps what it held as previous.
MT_Update_keep(t, currentState, currentPosition) ==
    [t EXCEPT !.currentButtonState = currentState,
              !.currentMousePosition = currentPosition]

\* MouseTracker::Update(_currentState, _currentPosition)
MT_Update(t, currentState, currentPosition) ==
    [t EXCEPT !.previousButtonState = t.currentButtonState,
              !.previousMousePosition = t.currentMousePosition,
              !.currentButtonState = currentState,
              !.currentMousePosition = currentPosition]

\* MouseTracker::CalculateDeltaHorizontal
CalculateDeltaHorizontal(t) == t.currentMousePosition[1] - t.previousMousePosition[1]

\* MouseTracker::CalculateDeltaVertical
CalculateDeltaVertical(t) == t.currentMousePosition[2] - t.previousMousePosition[2]

\* MouseTracker::CalculateDelta
CalculateDelta(t) == XMFLOAT2(CalculateDeltaHorizontal(t), CalculateDeltaVertical(t))

\* MouseTracker::GetRawDelta
GetRawDelta(t) == CalculateDelta(t)

\* Camera::UpdateMouse(_currentState, _mouseX, _mouseY), on Camera::tracker
Camera_UpdateMouse(t, currentState, mouseX, mouseY) ==
    MT_Update(t, currentState, XMFLOAT2(mouseX, mouseY))

\* What XMFLOAT4X4() leaves in Camera::view and Camera::projection: zeroes
\* where the default constructor is defaulted, whatever the memory held
\* where it is empty.
ZeroMatrix == [i \in 1..4 |-> [j \in 1..4 |-> 0]]

UninitialisedViews == {ZeroMatrix, [i \in 1..4 |-> [j \in 1..4 |-> 7]]}

ZeroProjection == [i \in 1..4 |-> [j \in 1..4 |-> Entry(0, 1, 0)]]

UninitialisedProjections == {ZeroProjection, [i \in 1..4 |-> [j \in 1..4 |-> Entry(7, 1, 0)]]}

\* The histories of the constructor calls of Camera.cpp.
ConstructedTransform ==
    [op |-> "TransformDescription", td |-> description, isRelative |-> TRUE, arg |-> <<0, 0, 0>>]

ConstructedOptions == [op |-> "CameraOptions", options |-> cameraOptions]

\* A UnitVector right after UnitVector::GetDefaultForward built it.
ConstructedUnitVector == [op |-> "GetDefaultForward", arg |-> <<0, 0, 1>>]

ConstructedCamera ==
    [camera |-> camera, op |-> "Camera", isRelative |-> TRUE, arg |-> <<0, 0, 0>>]

\* The objects of Camera.cpp right after their default constructors.
InitCameraFile ==
    /\ description = GetDefaultTransform /\ descriptionOther = GetDefaultTransform
    /\ descriptionCall = ConstructedTransform /\ descriptionOps = 0
    /\ cameraOptions = GetDefaultCameraOptions
    /\ optionsCall = ConstructedOptions /\ optionsOps = 0
    /\ camera = Camera(GetDefaultCameraOptions, GetDefaultTransform, ZeroMatrix,
                       ZeroProjection)
    /\ cameraCall = ConstructedCamera /\ cameraOps = 0
    /\ tracker = MouseTracker /\ mouseEvents = <<>>
    /\ returned = <<>>
    /\ indexing = {} /\ gameMeshCount = ConstructedMeshCount /\ initRan = FALSE
    /\ entities = <<>> /\ randomCall = NoDraw /\ seedCheck = -1 /\ errno = 0
    /\ materialA = Material_default /\ materialB = Material_default
    /\ materialCall = ConstructedMaterial /\ materialOps = 0
    /\ transformValue = TRANSFORM(One, One, One, One, One, One, 0, 0, 0, 1)
    /\ transformArgs = <<<<One, One, One>>, <<One, One, One>>, <<0, 0, 0, 1>>>>
    /\ entityArgs = <<>>
    /\ gamePc = "constructed" /\ gameLoop = 0
    /\ meshObjects = <<>> /\ gameEntities = <<>> /\ meshHeap = NoMeshes
    /\ gameFrames = <<0, 0>> /\ staleUse = FALSE
    /\ unitVector = GetDefaultForward /\ unitOther = GetDefaultUp
    /\ unitCall = ConstructedUnitVector /\ unitOps = 0

\* The history of a constructor call.
ConstructedEntity ==
    [fault |-> FALSE, emptyPeek |-> FALSE, local |-> local,
     popped |-> <<>>, resolved |-> <<>>, op |-> "GameEntity", buffer |-> <<>>,
     drained |-> <<>>]

ConstructedPair ==
    [local |-> pairLocal, op |-> "GameEntity", buffer |-> <<>>,
     moves |-> <<>>, others |-> 0]

ConstructedBuffer == [queue |-> <<>>, fault |-> FALSE, op |-> "TransformBuffer"]

\* A scoped entity right after the constructor that places it (beside it, a
\* pair-generation entity and a buffer nobody calls).
InitEntity ==
    /\ local \in {EntityAt(p) : p \in StartPositions}
    /\ transformBuffer = <<>> /\ call = ConstructedEntity /\ pushes = 0
    /\ pairLocal = EntityDefault
    /\ pairBuffer = <<>> /\ pairCall = ConstructedPair /\ pairPushes = 0
    /\ internalQueue = <<>> /\ bufferCall = ConstructedBuffer /\ bufferOps = 0
    /\ InitCameraFile

\* A pair-generation entity right after one of its constructors.
InitPair ==
    /\ local = EntityDefault
    /\ transformBuffer = <<>> /\ call = ConstructedEntity /\ pushes = 0
    /\ pairLocal \in EntityStarts
    /\ pairBuffer = <<>> /\ pairCall = ConstructedPair /\ pairPushes = 0
    /\ internalQueue = <<>> /\ bufferCall = ConstructedBuffer /\ bufferOps = 0
    /\ InitCameraFile

\* A TransformBuffer right after its constructor.
InitBuffer ==
    /\ local = EntityDefault
    /\ transformBuffer = <<>> /\ call = ConstructedEntity /\ pushes = 0
    /\ pairLocal = EntityDefault
    /\ pairBuffer = <<>> /\ pairCall = ConstructedPair /\ pairPushes = 0
    /\ internalQueue = <<>> /\ bufferCall = ConstructedBuffer /\ bufferOps = 0
    /\ InitCameraFile

\* The scoped GameEntity with its buffer.
SpecEntity ==
    InitEntity /\ [][NextEntity]_vars

\* The pair-generation GameEntity.
SpecPair ==
    InitPair /\ [][NextPair]_vars

\* The stand-alone TransformBuffer.
SpecBuffer ==
    InitBuffer
    /\ [][NextBuffer]_vars

\* The scoped GameEntity with at most MaxLivePushes commands, in the game
\* loop: Game::Update calls Update on every entity every frame, so Update
\* steps happen again and again (Update is always enabled, so this is weak
\* fairness of Update).
NextEntityLive == NextEntity /\ pushes' <= MaxLivePushes

LiveSpecEntity ==
    /\ InitEntity
    /\ [][NextEntityLive]_vars
    /\ []<><<\E sinTotal \in SinValues : Update(sinTotal)>>_vars

\* ------------------------------------------------------------------------
\* Vocabulary of the properties.
\* ------------------------------------------------------------------------

\* The calls that drain the buffer.
DrainOps == {"HandleTransformations", "Update"}

\* The last call drained the buffer.
Drained == call.op \in DrainOps

\* The items of a queue that have the given type.
OfType(queue, type) == SelectSeq(queue, LAMBDA item : item.type = type)

\* The items of a queue whose scope is not S_IGNORE.
NotIgnored(queue) == SelectSeq(queue, LAMBDA item : item.scope # S_IGNORE)

\* The sum of the three-component payloads of a sequence of items.
RECURSIVE SumFloat3(_)
SumFloat3(items) ==
    IF items = <<>> THEN <<0, 0, 0>>
    ELSE AddFloat3(SumFloat3(Tail(items)), ConvertTo3(Head(items).data))

\* The sum of a sequence of three-component vectors.
RECURSIVE SumVectors(_)
SumVectors(vs) ==
    IF vs = <<>> THEN <<0, 0, 0>> ELSE AddFloat3(SumVectors(Tail(vs)), Head(vs))

\* The per-type handler of one item, applied to a transform.
ApplyItem(t, item) ==
    CASE item.type = T_POSITION -> HandlePosition(t, ConvertTo3(item.data), item.scope)
      [] item.type = T_SCALE -> HandleScale(t, ConvertTo3(item.data), item.scope)
      [] item.type = T_ROTATION -> HandleRotation(t, item.data, item.scope)
      [] OTHER -> t

\* The left fold of the per-item handlers over items, first item first.
RECURSIVE FoldInOrder(_, _)
FoldInOrder(t, items) ==
    IF items = <<>> THEN t ELSE FoldInOrder(ApplyItem(t, Head(items)), Tail(items))

\* The field of a transform a type of item writes, as a four-component value.
FieldOf(t, type) ==
    CASE type = T_POSITION -> ConvertTo4(GetPosition(t), 0)
      [] type = T_SCALE -> ConvertTo4(GetScale(t), 0)
      [] type = T_ROTATION -> GetRotation(t)

Last(seq) == seq[Len(seq)]

Reverse(seq) == [i \in 1..Len(seq) |-> seq[Len(seq) + 1 - i]]

\* ------------------------------------------------------------------------
\* C1..C10.
\* ------------------------------------------------------------------------

\* C1: when every position command drained by one drain is RELATIVE (Move
\* calls, no MoveTo), in whatever interleaving with scale and rotation
\* commands, the position after the drain is the position before it plus
\* the sum of the deltas.
C1_RelativeMovesAdd ==
    (Drained /\ \A i \in 1..Len(call.drained) :
                    call.drained[i].type = T_POSITION => call.drained[i].scope = S_RELATIVE)
    => GetPosition(local)
       = AddFloat3(GetPosition(call.local), SumFloat3(OfType(call.drained, T_POSITION)))

\* C1 witness: a drain of two different Moves with another type of command
\* between them, on an entity that was not at the origin.
C1_Witness ==
    /\ call.op = "HandleTransformations"
    /\ Len(call.drained) = 3
    /\ call.drained[1].type = T_POSITION /\ call.drained[1].scope = S_RELATIVE
    /\ call.drained[2].type # T_POSITION
    /\ call.drained[3].type = T_POSITION /\ call.drained[3].scope = S_RELATIVE
    /\ call.drained[1].data # call.drained[3].data
    /\ GetPosition(call.local) # <<0, 0, 0>>
    /\ GetPosition(local) # GetPosition(call.local)

\* C2: for position, scale and rotation alike, when the last drained command
\* of that type is ABSOLUTE with value v, the field equals v after the
\* drain, whatever commands of that type came before it.
C2_LastAbsoluteWins ==
    \A type \in {T_POSITION, T_SCALE, T_ROTATION} :
        (Drained /\ OfType(call.drained, type) # <<>>
                 /\ Last(OfType(call.drained, type)).scope = S_ABSOLUTE)
        => FieldOf(local, type) = Last(OfType(call.drained, type)).data

\* C2 witness: a drain whose last rotation command is ABSOLUTE, comes after
\* a RELATIVE rotation command, and changes the rotation.
C2_Witness ==
    /\ Drained
    /\ Len(OfType(call.drained, T_ROTATION)) >= 2
    /\ OfType(call.drained, T_ROTATION)[1].scope = S_RELATIVE
    /\ Last(OfType(call.drained, T_ROTATION)).scope = S_ABSOLUTE
    /\ GetRotation(local) # GetRotation(call.local)

\* C3: a drain pops the items in push order, whatever their types, and
\* leaves the local transform equal to the left fold of the per-item
\* handlers over the queue in insertion order.
C3_FifoFold ==
    Drained => /\ call.popped = call.drained
               /\ local = FoldInOrder(call.local, call.drained)

\* C3 witness: a drain of a queue whose order matters (the reversed queue
\* folds to another transform) and that mixes types.
C3_Witness ==
    /\ Drained
    /\ Len(call.drained) >= 3
    /\ \E i, j \in 1..Len(call.drained) : call.drained[i].type # call.drained[j].type
    /\ FoldInOrder(call.local, Reverse(call.drained)) # local

\* The last two commands before a call were ScaleTo(a) and then Scale(d).
ScaleToThenScale(queue, a, d) ==
    /\ Len(queue) >= 2
    /\ queue[Len(queue) - 1] = item_transformation(T_SCALE, ConvertTo4(a, 0), S_ABSOLUTE)
    /\ queue[Len(queue)] = item_transformation(T_SCALE, ConvertTo4(d, 0), S_RELATIVE)

\* C4 as claimed: ScaleTo(a) then Scale(d) before an Update leave the scale
\* a + d after that Update.
C4_AsClaimed ==
    \A a \in ScaleTargets, d \in ScaleDeltas :
        (call.op = "Update" /\ ScaleToThenScale(call.buffer, a, d))
        => GetScale(local) = AddFloat3(a, d)

\* C4 amended: ScaleTo(a) then Scale(d) followed by a drain leave the scale
\* a + d whatever it was before; Update enqueues its own
\* ScaleTo(pulse, pulse, 1.0) behind them, so after Update the scale is
\* (pulse, pulse, 1.0).
C4_Amended ==
    \A a \in ScaleTargets, d \in ScaleDeltas :
        /\ (call.op = "HandleTransformations" /\ ScaleToThenScale(call.drained, a, d))
           => GetScale(local) = AddFloat3(a, d)
        /\ (call.op = "Update" /\ ScaleToThenScale(call.buffer, a, d))
           => \E sinTotal \in SinValues :
                  GetScale(local) = <<Pulse(sinTotal), Pulse(sinTotal), One>>

\* C4 witness: the example of the specification, ScaleTo(0.2, 0.2, 0.2) then
\* Scale(0.1, 0, 0) drained on an entity of scale (1, 1, 1).
C4_Witness ==
    /\ call.op = "HandleTransformations"
    /\ ScaleToThenScale(call.drained, <<4, 4, 4>>, <<2, 0, 0>>)
    /\ GetScale(call.local) = <<One, One, One>>
    /\ GetScale(local) = <<6, 4, 4>>

\* C5: Update returns with the buffer empty, having popped each item that
\* was there when its drain started (the commands enqueued before the call
\* and its own ScaleTo) exactly once, never popping an empty queue and
\* resolving no item twice.
C5_UpdateDrainsOnce ==
    call.op = "Update"
    => /\ transformBuffer = <<>>
       /\ Len(call.popped) = Len(call.buffer) + 1
       /\ SubSeq(call.popped, 1, Len(call.buffer)) = call.buffer
       /\ Len(call.resolved) <= Len(call.popped)
       /\ ~call.fault

\* C5 witness: an Update that met two commands in the buffer.
C5_Witness ==
    /\ call.op = "Update"
    /\ Len(call.buffer) >= 2
    /\ transformBuffer = <<>>

\* The items the model enqueues.
AllItems ==
    {item_transformation(T_POSITION, ConvertTo4(v, 0), scope) :
        v \in MoveDeltas \cup MoveTargets \cup PositionRequests, scope \in TransformScope}
    \cup {item_transformation(T_SCALE, ConvertTo4(v, 0), scope) :
        v \in ScaleDeltas \cup ScaleTargets \cup ScaleRequests, scope \in TransformScope}
    \cup {item_transformation(T_ROTATION, q, scope) :
        q \in RotationRequests
              \cup {XMQuaternionRotationRollPitchYaw(a[1], a[2], a[3]) :
                       a \in RotateAngles \cup RotateToAngles},
        scope \in TransformScope}

Range(seq) == {seq[i] : i \in 1..Len(seq)}

\* C6 as claimed, on the drain that removes an item: every item a drain
\* removes from the buffer, whatever its scope, has been resolved by its
\* per-type handler.
C6_AsClaimed == Drained => call.resolved = call.drained

\* Every item waiting in the buffer either keeps its place over a step, or
\* the step is a drain that popped it at its place, handed exactly the
\* items whose scope is not S_IGNORE to their handlers and emptied the
\* buffer.
WaitingItemsKeptOrDrained ==
    \A i \in 1..Len(transformBuffer) :
        \/ /\ i <= Len(transformBuffer')
           /\ transformBuffer'[i] = transformBuffer[i]
        \/ /\ call'.op \in DrainOps
           /\ transformBuffer' = <<>>
           /\ i <= Len(call'.popped)
           /\ call'.popped[i] = transformBuffer[i]
           /\ call'.resolved = NotIgnored(call'.popped)

\* C6 amended: with Update called every frame, every enqueued item is
\* eventually popped by a drain, which leaves the buffer empty; it is
\* resolved by its per-type handler when its scope is not S_IGNORE and
\* dropped unapplied when it is.
C6_Amended ==
    /\ [][WaitingItemsKeptOrDrained]_vars
    /\ (transformBuffer # <<>>) ~> (Drained /\ transformBuffer = <<>>)

\* C6 witness: an Update that popped an S_IGNORE item and resolved the
\* command enqueued with it.
C6_Witness ==
    /\ call.op = "Update"
    /\ \E i \in 1..Len(call.buffer) : call.buffer[i].scope = S_IGNORE
    /\ \E i \in 1..Len(call.buffer) : call.buffer[i] \in Range(call.resolved)
    /\ transformBuffer = <<>>

\* C7: a drain removes the S_IGNORE items without applying them: the buffer
\* ends empty, the handlers have run on exactly the other items, in order,
\* and the local transform is what those items alone fold to.
C7_IgnoredIsDropped ==
    (Drained /\ \E i \in 1..Len(call.drained) : call.drained[i].scope = S_IGNORE)
    => /\ transformBuffer = <<>>
       /\ call.resolved = NotIgnored(call.drained)
       /\ local = FoldInOrder(call.local, NotIgnored(call.drained))

\* C7 witness: a drain of an S_IGNORE item with a command behind it that
\* changed the local transform.
C7_Witness ==
    /\ call.op = "HandleTransformations"
    /\ Len(call.drained) >= 2
    /\ call.drained[1].scope = S_IGNORE
    /\ call.drained[2].scope # S_IGNORE
    /\ local # call.local

\* The type of item each of the six calls enqueues.
TypeOfCall(op) ==
    CASE op \in {"Move", "MoveTo"} -> T_POSITION
      [] op \in {"Scale", "ScaleTo"} -> T_SCALE
      [] op \in {"Rotate", "RotateTo"} -> T_ROTATION

\* C8: Move, Scale and Rotate append exactly one S_RELATIVE item of their
\* type, MoveTo, ScaleTo and RotateTo exactly one S_ABSOLUTE item of their
\* type, and none of them changes the local transform.
C8_SixCallsEnqueue ==
    call.op \in {"Move", "Scale", "Rotate", "MoveTo", "ScaleTo", "RotateTo"}
    => /\ Len(transformBuffer) = Len(call.buffer) + 1
       /\ SubSeq(transformBuffer, 1, Len(call.buffer)) = call.buffer
       /\ Last(transformBuffer).type = TypeOfCall(call.op)
       /\ Last(transformBuffer).scope
          = (IF call.op \in {"Move", "Scale", "Rotate"} THEN S_RELATIVE ELSE S_ABSOLUTE)
       /\ local = call.local

\* C8 witness: a Move made while two commands were already waiting.
C8_Witness ==
    /\ call.op = "Move"
    /\ Len(call.buffer) = 2
    /\ Len(transformBuffer) = 3

\* C9: in the pair generation, the Moves made before one Update (and nothing
\* else) displace the entity by the sum of their deltas.
C9_MovesAccumulate ==
    (pairCall.op = "Update" /\ pairCall.others = 0 /\ Len(pairCall.moves) >= 1)
    => GetPosition(pairLocal)
       = AddFloat3(GetPosition(pairCall.local), SumVectors(pairCall.moves))

\* C10: pop on an empty buffer leaves it empty and never reaches
\* std::queue::pop; on a non-empty buffer it removes the front item and
\* keeps the others in their order.
C10_PopIsGuarded ==
    bufferCall.op = "pop"
    => /\ ~bufferCall.fault
       /\ (bufferCall.queue = <<>> => internalQueue = <<>>)
       /\ (bufferCall.queue # <<>>
           => /\ Len(internalQueue) = Len(bufferCall.queue) - 1
              /\ \A i \in 1..Len(internalQueue) : internalQueue[i] = bufferCall.queue[i + 1])

\* C10 witness: a pop on a buffer that earlier calls had left empty.
C10_Witness ==
    /\ bufferCall.op = "pop"
    /\ bufferCall.queue = <<>>
    /\ internalQueue = <<>>
    /\ bufferOps >= 3

\* ------------------------------------------------------------------------
\* C11..C20.
\* ------------------------------------------------------------------------

\* The calls of the buffer that push, with and without a scope argument.
PushOps ==
    {"push_position", "push_scale", "push_rotation",
     "push_position_default", "push_scale_default", "push_rotation_default"}

\* The type a push_* method names.
TypeOfPush(op) ==
    CASE op \in {"push_position", "push_position_default"} -> T_POSITION
      [] op \in {"push_scale", "push_scale_default"} -> T_SCALE
      [] op \in {"push_rotation", "push_rotation_default"} -> T_ROTATION

\* C11: every push_position, push_scale and push_rotation call appends
\* exactly one item at the back (the size grows by one, the earlier items
\* keep their places), tagged with the type its method names, and tagged
\* S_ABSOLUTE when the call gives no scope.
C11_PushAppendsOne ==
    bufferCall.op \in PushOps
    => /\ ~bufferCall.fault
       /\ size(internalQueue) = size(bufferCall.queue) + 1
       /\ SubSeq(internalQueue, 1, Len(bufferCall.queue)) = bufferCall.queue
       /\ Last(internalQueue).type = TypeOfPush(bufferCall.op)
       /\ (bufferCall.op \in {"push_position_default", "push_scale_default",
                              "push_rotation_default"}
           => Last(internalQueue).scope = S_ABSOLUTE)

\* C11 witness: a push without a scope argument behind two items of other
\* types and scopes.
C11_Witness ==
    /\ bufferCall.op = "push_scale_default"
    /\ Len(bufferCall.queue) = 2
    /\ bufferCall.queue[1].type # bufferCall.queue[2].type
    /\ bufferCall.queue[1].scope # S_ABSOLUTE
    /\ Len(internalQueue) = 3

\* C12: a drain, in Update or called on its own, never reads the front of
\* an empty queue: every next_scope, peek_item, next_type, peek_float3 and
\* peek_float4 call is made inside the is_empty test, whatever was pushed
\* before.
C12_DrainPeeksNonEmpty == Drained => ~call.emptyPeek

\* C12 witness: an Update that met three pushed items, one of them ignored,
\* and read every one of them and its own ScaleTo.
C12_Witness ==
    /\ call.op = "Update"
    /\ Len(call.buffer) = 3
    /\ \E i \in 1..3 : call.buffer[i].scope = S_IGNORE
    /\ Len(call.popped) = 4
    /\ ~call.emptyPeek

\* ------------------------------------------------------------------------
\* GameEntity, scoped generation: the five constructors.
\* ------------------------------------------------------------------------

\* GameEntity::GameEntity(mesh, pX, pY, pZ, sX, sY, sZ, rX, rY, rZ, rW)
EntityAtScaledRotated(p, s, r) == SetRotation(EntityAtScaled(p, s), r)

\* GameEntity::GameEntity(mesh, const TRANSFORM t): delegates with the ten
\* fields of t.
EntityFromTransform(t) ==
    EntityAtScaledRotated(XMFLOAT3(t.pX, t.pY, t.pZ), XMFLOAT3(t.sX, t.sY, t.sZ),
                          XMFLOAT4(t.rX, t.rY, t.rZ, t.rW))

\* Constructor arguments: positions, scales (a zero scale can be asked for)
\* and rotations.
ConstructPositions == {<<0, 0, 0>>, <<-2, 1, 0>>, <<0, 2, 0>>, <<1, 0, -1>>}

ConstructScales == {<<0, 0, 0>>, <<6, 6, 6>>, <<One, One, One>>}

ConstructRotations == {<<0, 0, 0, 1>>, <<1, 0, 0, 0>>, <<0, 1, 0, 0>>, <<0, 0, 0, 0>>}

\* The TRANSFORM values handed to the last constructor.
ConstructTransforms ==
    {BlankTransform}
    \cup {SetRotation(SetScale(SetPosition(BlankTransform, p), s), r) :
             p \in ConstructPositions, s \in ConstructScales, r \in ConstructRotations}

\* A constructor call: a new entity with an empty buffer.
Constructed(op, t) ==
    /\ local' = t
    /\ transformBuffer' = <<>>
    /\ call' = [fault |-> FALSE, emptyPeek |-> FALSE, local |-> t, popped |-> <<>>,
                resolved |-> <<>>, op |-> op, buffer |-> <<>>, drained |-> <<>>]
    /\ pushes' = 0
    /\ UNCHANGED <<pairVars, bufferVars, descriptionVars, optionVars, cameraVars, mouseVars, unitVars, meshVars, valueVars, materialVars, randomVars, lifeVars, copyVars>>

GameEntity_mesh == Constructed("GameEntity(mesh)", EntityDefault)

GameEntity_position(p) == Constructed("GameEntity(mesh, p)", EntityAt(p))

GameEntity_scale(p, s) == Constructed("GameEntity(mesh, p, s)", EntityAtScaled(p, s))

GameEntity_rotation(p, s, r) ==
    Constructed("GameEntity(mesh, p, s, r)", EntityAtScaledRotated(p, s, r))

GameEntity_transform(t) == Constructed("GameEntity(mesh, t)", EntityFromTransform(t))

NextConstruct ==
    \/ GameEntity_mesh
    \/ \E p \in ConstructPositions : GameEntity_position(p)
    \/ \E p \in ConstructPositions, s \in ConstructScales : GameEntity_scale(p, s)
    \/ \E p \in ConstructPositions, s \in ConstructScales, r \in ConstructRotations :
           GameEntity_rotation(p, s, r)
    \/ \E t \in ConstructTransforms : GameEntity_transform(t)

\* The constructors of the scoped GameEntity, called one after another.
SpecConstruct == InitBuffer /\ [][NextConstruct]_vars

\* C13: a constructor that is given no scale leaves the scale (1, 1, 1),
\* never zero; a constructor that is given no rotation leaves the rotation
\* (0, 0, 0, 1); the constructor that is given only a mesh also leaves the
\* position (0, 0, 0).
C13_ConstructorDefaults ==
    /\ call.op \in {"GameEntity(mesh)", "GameEntity(mesh, p)"}
       => /\ GetScale(local) = <<One, One, One>>
          /\ GetScale(local) # <<0, 0, 0>>
    /\ call.op \in {"GameEntity(mesh)", "GameEntity(mesh, p)", "GameEntity(mesh, p, s)"}
       => GetRotation(local) = <<0, 0, 0, 1>>
    /\ call.op = "GameEntity(mesh)" => GetPosition(local) = <<0, 0, 0>>

\* C13 witness: the constructor given a position only, away from the
\* origin, with the unit scale and the identity rotation.
C13_Witness ==
    /\ call.op = "GameEntity(mesh, p)"
    /\ GetPosition(local) = <<-2, 1, 0>>
    /\ GetScale(local) = <<One, One, One>>
    /\ GetRotation(local) = <<0, 0, 0, 1>>

\* ------------------------------------------------------------------------
\* The TransformDescription of Camera.cpp, called from outside.
\* ------------------------------------------------------------------------

\* The most calls made on the TransformDescription.
MaxTransformOps == 3

\* The positions and the rotations (in units of pi) the calls are given:
\* among them the zero vector and a vector whose components sum to zero.
TransformPositions == {<<0, 0, 0>>, <<1, -1, 0>>, <<2, 0, 1>>}

TransformRotations == {<<0, 0, 0>>, <<1, -1, 0>>, <<1, 0, 0>>, <<0, 1, 1>>}

\* The frame times the timed overloads are given.
DeltaTimes == {2}

\* A call on the TransformDescription: what it leaves of the object, of the
\* other object, and the history of the call.
TransformCalled(op, t, other, arg, isRelative) ==
    /\ descriptionOps < MaxTransformOps
    /\ description' = t
    /\ descriptionOther' = other
    /\ descriptionCall' = [op |-> op, td |-> description, isRelative |-> isRelative,
                           arg |-> arg]
    /\ descriptionOps' = descriptionOps + 1
    /\ UNCHANGED <<entityVars, pairVars, bufferVars, optionVars, cameraVars, mouseVars, unitVars, meshVars, valueVars, materialVars, randomVars, lifeVars, copyVars>>

TD_Construct(position, rotation) ==
    TransformCalled("TransformDescription(p, r)", TransformDescription(position, rotation),
                    descriptionOther, position, FALSE)

TD_Construct_position(position) ==
    TransformCalled("TransformDescription(p)",
                    TransformDescription(position, XMFLOAT3(0, 0, 0)),
                    descriptionOther, position, FALSE)

\* other is constructed as a copy of the object.
TD_Copied ==
    TransformCalled("copy", description, TD_copy(description), <<0, 0, 0>>, FALSE)

\* The object is constructed by moving other.
TD_Moved ==
    TransformCalled("move", TD_move(descriptionOther).lhs, TD_move(descriptionOther).rhs,
                    <<0, 0, 0>>, FALSE)

\* other = object
TD_Assigned ==
    TransformCalled("operator=", description, TD_assign(descriptionOther, description),
                    <<0, 0, 0>>, FALSE)

TD_Swapped ==
    TransformCalled("swap", TD_swap(description, descriptionOther).lhs,
                    TD_swap(description, descriptionOther).rhs, <<0, 0, 0>>, FALSE)

TD_Translated(delta) ==
    TransformCalled("Translate", TD_Translate(description, delta), descriptionOther,
                    delta, TRUE)

TD_Rotated(delta) ==
    TransformCalled("Rotate", TD_Rotate(description, delta), descriptionOther, delta, TRUE)

TD_PositionSet(absolute) ==
    TransformCalled("SetPosition", TD_SetPosition(description, absolute), descriptionOther,
                    absolute, FALSE)

TD_RotationSet(absolute) ==
    TransformCalled("SetRotation", TD_SetRotation(description, absolute), descriptionOther,
                    absolute, FALSE)

TD_PositionUpdated(speed, isRelative) ==
    TransformCalled("UpdatePosition", TD_UpdatePosition(description, speed, isRelative),
                    descriptionOther, speed, isRelative)

TD_RotationUpdated(speed, isRelative) ==
    TransformCalled("UpdateRotation", TD_UpdateRotation(description, speed, isRelative),
                    descriptionOther, speed, isRelative)

TD_PositionUpdatedTimed(deltaTime, speed, isRelative) ==
    TransformCalled("UpdatePosition(deltaTime)",
                    TD_UpdatePositionTimed(description, deltaTime, speed, isRelative),
                    descriptionOther, speed, isRelative)

TD_RotationUpdatedTimed(deltaTime, speed, isRelative) ==
    TransformCalled("UpdateRotation(deltaTime)",
                    TD_UpdateRotationTimed(description, deltaTime, speed, isRelative),
                    descriptionOther, speed, isRelative)

TD_WasReset ==
    TransformCalled("Reset", TD_Reset(description), descriptionOther, <<0, 0, 0>>, FALSE)

NextTransform ==
    \/ \E p \in TransformPositions, r \in TransformRotations : TD_Construct(p, r)
    \/ \E p \in TransformPositions : TD_Construct_position(p)
    \/ TD_Copied
    \/ TD_Moved
    \/ TD_Assigned
    \/ TD_Swapped
    \/ \E delta \in TransformPositions : TD_Translated(delta)
    \/ \E delta \in TransformRotations : TD_Rotated(delta)
    \/ \E absolute \in TransformPositions : TD_PositionSet(absolute)
    \/ \E absolute \in TransformRotations : TD_RotationSet(absolute)
    \/ \E speed \in TransformPositions, isRelative \in BOOLEAN :
           TD_PositionUpdated(speed, isRelative)
    \/ \E speed \in TransformRotations, isRelative \in BOOLEAN :
           TD_RotationUpdated(speed, isRelative)
    \/ \E deltaTime \in DeltaTimes, speed \in TransformPositions, isRelative \in BOOLEAN :
           TD_PositionUpdatedTimed(deltaTime, speed, isRelative)
    \/ \E deltaTime \in DeltaTimes, speed \in TransformRotations, isRelative \in BOOLEAN :
           TD_RotationUpdatedTimed(deltaTime, speed, isRelative)
    \/ TD_WasReset

\* Two default TransformDescriptions (beside them, the other objects of the
\* model, which nobody calls).
InitTransform ==
    /\ local = EntityDefault
    /\ transformBuffer = <<>> /\ call = ConstructedEntity /\ pushes = 0
    /\ pairLocal = EntityDefault
    /\ pairBuffer = <<>> /\ pairCall = ConstructedPair /\ pairPushes = 0
    /\ internalQueue = <<>> /\ bufferCall = ConstructedBuffer /\ bufferOps = 0
    /\ InitCameraFile

SpecTransform == InitTransform /\ [][NextTransform]_vars

\* The direction the default forward vector takes under an orientation, and
\* the direction the default up vector takes, as unit vectors.
HeadingOf(orientation) ==
    normalize(XMVector3Rotate(<<0, 0, 1>>, OrientationQuaternion(orientation)))

UpOf(orientation) ==
    normalize(XMVector3Rotate(<<0, 1, 0>>, OrientationQuaternion(orientation)))

InSync(t) ==
    /\ t.heading = HeadingOf(t.orientation)
    /\ t.up = UpOf(t.orientation)

\* C14: the cached heading and up vectors of a TransformDescription are
\* those derived from its orientation, after construction, copy, move,
\* assignment, swap, Translate, Rotate, SetPosition, SetRotation,
\* UpdatePosition, UpdateRotation and Reset.
C14_HeadingUpInSync ==
    /\ InSync(description)
    /\ InSync(descriptionOther)

\* C14 witness: a Rotate has turned the object half a turn about the y axis:
\* the heading is (0, 0, -1), no longer the default, and the up vector is
\* the default one.
C14_Witness ==
    /\ descriptionCall.op = "Rotate"
    /\ descriptionCall.td.heading = <<0, 0, 1>>
    /\ description.orientation = <<1, 0, 0>>
    /\ description.heading = <<0, 0, -1>>
    /\ description.up = <<0, 1, 0>>

\* ------------------------------------------------------------------------
\* The CameraOptions of Camera.cpp, called from outside.
\* ------------------------------------------------------------------------

\* The most calls made on the CameraOptions.
MaxOptionsOps == 3

\* The widths, heights and aspect ratios the calls are given.
Widths == {800, 1280, 1920}

Heights == {600, 720, 1080}

AspectRatios == {<<4, 3>>, <<16, 9>>}

\* The fields of view (in units of 0.25) and the clipping planes (in units
\* of 0.1) the calls are given.
FieldsOfView == {1, 2}

NearPlanes == {1, 5}

FarPlanes == {500, 1000}

\* A call on the CameraOptions: what it leaves and the history of the call.
OptionsCalled(op, o) ==
    /\ optionsOps < MaxOptionsOps
    /\ cameraOptions' = o
    /\ optionsCall' = [op |-> op, options |-> cameraOptions]
    /\ optionsOps' = optionsOps + 1
    /\ UNCHANGED <<entityVars, pairVars, bufferVars, descriptionVars, cameraVars, mouseVars, unitVars, meshVars, valueVars, materialVars, randomVars, lifeVars, copyVars>>

CO_Construct(fov, w, h, nearClip, farClip) ==
    OptionsCalled("CameraOptions(fov, w, h, nearClip, farClip)",
                  CameraOptions(fov, w, h, nearClip, farClip))

CO_FieldOfViewSet(value) ==
    OptionsCalled("SetFieldOfView", CO_SetFieldOfView(cameraOptions, value))

CO_WidthSet(value) == OptionsCalled("SetWidth", CO_SetWidth(cameraOptions, value))

CO_HeightSet(value) == OptionsCalled("SetHeight", CO_SetHeight(cameraOptions, value))

CO_WidthSetByAspectRatio(ratio, height) ==
    OptionsCalled("SetWidthByAspectRatio",
                  CO_SetWidthByAspectRatio(cameraOptions, ratio, height))

CO_HeightSetByAspectRatio(ratio, width) ==
    OptionsCalled("SetHeightByAspectRatio",
                  CO_SetHeightByAspectRatio(cameraOptions, ratio, width))

CO_NearClippingPlaneSet(value) ==
    OptionsCalled("SetNearClippingPlane", CO_SetNearClippingPlane(cameraOptions, value))

CO_FarClippingPlaneSet(value) ==
    OptionsCalled("SetFarClippingPlane", CO_SetFarClippingPlane(cameraOptions, value))

CO_AspectRatioUpdated ==
    OptionsCalled("UpdateAspectRatio", CO_UpdateAspectRatio(cameraOptions))

NextOptions ==
    \/ \E fov \in FieldsOfView, w \in Widths, h \in Heights :
           CO_Construct(fov, w, h, 1, 1000)
    \/ \E value \in FieldsOfView : CO_FieldOfViewSet(value)
    \/ \E value \in Widths : CO_WidthSet(value)
    \/ \E value \in Heights : CO_HeightSet(value)
    \/ \E ratio \in AspectRatios, height \in Heights :
           CO_WidthSetByAspectRatio(ratio, height)
    \/ \E ratio \in AspectRatios, width \in Widths :
           CO_HeightSetByAspectRatio(ratio, width)
    \/ \E value \in NearPlanes : CO_NearClippingPlaneSet(value)
    \/ \E value \in FarPlanes : CO_FarClippingPlaneSet(value)
    \/ CO_AspectRatioUpdated

\* The default CameraOptions (beside it, the other objects of the model,
\* which nobody calls).
InitOptions ==
    /\ local = EntityDefault
    /\ transformBuffer = <<>> /\ call = ConstructedEntity /\ pushes = 0
    /\ pairLocal = EntityDefault
    /\ pairBuffer = <<>> /\ pairCall = ConstructedPair /\ pairPushes = 0
    /\ internalQueue = <<>> /\ bufferCall = ConstructedBuffer /\ bufferOps = 0
    /\ InitCameraFile

SpecOptions == InitOptions /\ [][NextOptions]_vars

\* The setters of the width and the height.
DimensionSetters ==
    {"SetWidth", "SetHeight", "SetWidthByAspectRatio", "SetHeightByAspectRatio"}

\* C20: GetAspectRatio returns the cached ratio, and SetWidth, SetHeight,
\* SetWidthByAspectRatio and SetHeightByAspectRatio leave it as it was
\* (it changes at construction and in UpdateAspectRatio only).
C20_SettersKeepAspectRatio ==
    /\ optionsCall.op \in DimensionSetters
       => GetAspectRatio(cameraOptions) = optionsCall.options.aspectRatio
    /\ optionsCall.op \notin (DimensionSetters
                              \cup {"UpdateAspectRatio", "CameraOptions",
                                    "CameraOptions(fov, w, h, nearClip, farClip)"})
       => GetAspectRatio(cameraOptions) = optionsCall.options.aspectRatio

\* C20 witness: SetWidth(1920) on the default options: the width is 1920,
\* the height 720, and GetAspectRatio still returns 1280 / 720 = 16 / 9,
\* which is no longer width / height.
C20_Witness ==
    /\ optionsCall.op = "SetWidth"
    /\ optionsCall.options = GetDefaultCameraOptions
    /\ GetWidth(cameraOptions) = 1920
    /\ GetHeight(cameraOptions) = 720
    /\ GetAspectRatio(cameraOptions) = <<16, 9>>
    /\ Ratio(GetWidth(cameraOptions), GetHeight(cameraOptions)) = <<8, 3>>

\* ------------------------------------------------------------------------
\* The Camera of Camera.cpp, called from outside and from Game.cpp.
\* ------------------------------------------------------------------------

\* The most calls made on the Camera.
MaxCameraOps == 2

\* The positions and the rotations (in units of pi) the calls are given:
\* among them the zero vector and a vector whose components sum to zero.
CameraPositions == {<<0, 0, 0>>, <<1, -1, 0>>, <<2, 0, 1>>}

CameraRotations == {<<0, 0, 0>>, <<1, -1, 0>>, <<1, 0, 0>>}

\* The window sizes a resize brings.
WindowSizes == {<<800, 600>>, <<1920, 1080>>}

\* A call on the Camera: what it leaves and the history of the call.
CameraCalled(op, c, arg, isRelative) ==
    /\ cameraOps < MaxCameraOps
    /\ camera' = c
    /\ cameraCall' = [camera |-> camera, op |-> op, isRelative |-> isRelative, arg |-> arg]
    /\ cameraOps' = cameraOps + 1
    /\ UNCHANGED <<entityVars, pairVars, bufferVars, descriptionVars, optionVars, mouseVars, unitVars, meshVars, valueVars, materialVars, randomVars, lifeVars, copyVars>>

\* Camera::Camera(options, position, rotation), with what view() and
\* projection() leave in the two matrices.
Camera_Construct(position, rotation, view, projection) ==
    CameraCalled("Camera(options, position, rotation)",
                 Camera(GetDefaultCameraOptions, TransformDescription(position, rotation),
                        view, projection),
                 position, FALSE)

Camera_FOVSet(fov) == CameraCalled("SetFOV", Camera_SetFOV(camera, fov), <<fov, 0, 0>>, FALSE)

Camera_DimensionsSet(width, height) ==
    CameraCalled("SetDimensions", Camera_SetDimensions(camera, width, height),
                 <<width, height, 0>>, FALSE)

Camera_ClippingPlaneSet(nearPlane, farPlane) ==
    CameraCalled("SetClippingPlane", Camera_SetClippingPlane(camera, nearPlane, farPlane),
                 <<nearPlane, farPlane, 0>>, FALSE)

Camera_WasReset == CameraCalled("Reset", Camera_Reset(camera), <<0, 0, 0>>, FALSE)

Camera_PositionUpdated(speed, isRelative) ==
    CameraCalled("UpdatePosition", Camera_UpdatePosition(camera, speed, isRelative),
                 speed, isRelative)

Camera_RotationUpdated(speed, isRelative) ==
    CameraCalled("UpdateRotation", Camera_UpdateRotation(camera, speed, isRelative),
                 speed, isRelative)

Camera_PositionUpdatedTimed(deltaTime, speed, isRelative) ==
    CameraCalled("UpdatePosition(deltaTime)",
                 Camera_UpdatePositionTimed(camera, deltaTime, speed, isRelative),
                 speed, isRelative)

Camera_RotationUpdatedTimed(deltaTime, speed, isRelative) ==
    CameraCalled("UpdateRotation(deltaTime)",
                 Camera_UpdateRotationTimed(camera, deltaTime, speed, isRelative),
                 speed, isRelative)

Camera_ViewMatrixUpdated ==
    CameraCalled("UpdateViewMatrix", UpdateViewMatrix(camera), <<0, 0, 0>>, FALSE)

Camera_ProjectionMatrixUpdated ==
    CameraCalled("UpdateProjectionMatrix", UpdateProjectionMatrix(camera), <<0, 0, 0>>,
                 FALSE)

Camera_MovedBy(delta) == CameraCalled("MoveBy", Camera_MoveBy(camera, delta), delta, TRUE)

Camera_MovedTo(absolute) ==
    CameraCalled("MoveTo", Camera_MoveTo(camera, absolute), absolute, FALSE)

Camera_RotatedBy(delta) ==
    CameraCalled("RotateBy", Camera_RotateBy(camera, delta), delta, TRUE)

Camera_RotatedTo(absolute) ==
    CameraCalled("RotateTo", Camera_RotateTo(camera, absolute), absolute, FALSE)

\* Game::CreateMatrices: SetPosition acts on the copy GetTransform returns,
\* then the two matrices of the camera are updated.
Game_CreateMatrices ==
    CameraCalled("Game::CreateMatrices", UpdateProjectionMatrix(UpdateViewMatrix(camera)),
                 <<0, 0, -5>>, FALSE)

\* Game::OnResize, with the width and the height DXCore holds for the
\* window: the camera is given both.
Game_OnResize(width, height) ==
    CameraCalled("Game::OnResize", Camera_SetDimensions(camera, width, height),
                 <<width, height, 0>>, FALSE)

NextCamera ==
    \/ \E position \in CameraPositions, rotation \in CameraRotations,
          view \in UninitialisedViews, projection \in UninitialisedProjections :
           Camera_Construct(position, rotation, view, projection)
    \/ \E fov \in FieldsOfView : Camera_FOVSet(fov)
    \/ \E window \in WindowSizes : Camera_DimensionsSet(window[1], window[2])
    \/ \E nearPlane \in NearPlanes, farPlane \in FarPlanes :
           Camera_ClippingPlaneSet(nearPlane, farPlane)
    \/ Camera_WasReset
    \/ \E speed \in CameraPositions, isRelative \in BOOLEAN :
           Camera_PositionUpdated(speed, isRelative)
    \/ \E speed \in CameraRotations, isRelative \in BOOLEAN :
           Camera_RotationUpdated(speed, isRelative)
    \/ \E deltaTime \in DeltaTimes, speed \in CameraPositions, isRelative \in BOOLEAN :
           Camera_PositionUpdatedTimed(deltaTime, speed, isRelative)
    \/ \E deltaTime \in DeltaTimes, speed \in CameraRotations, isRelative \in BOOLEAN :
           Camera_RotationUpdatedTimed(deltaTime, speed, isRelative)
    \/ Camera_ViewMatrixUpdated
    \/ Camera_ProjectionMatrixUpdated
    \/ \E delta \in CameraPositions : Camera_MovedBy(delta)
    \/ \E absolute \in CameraPositions : Camera_MovedTo(absolute)
    \/ \E delta \in CameraRotations : Camera_RotatedBy(delta)
    \/ \E absolute \in CameraRotations : Camera_RotatedTo(absolute)
    \/ Game_CreateMatrices
    \/ \E window \in WindowSizes : Game_OnResize(window[1], window[2])

\* The camera Game constructs: the default options, the position
\* (0, 0, -5), and the two matrices as XMFLOAT4X4() leaves them (beside it,
\* the other objects of the model, which nobody calls).
InitCamera ==
    /\ local = EntityDefault
    /\ transformBuffer = <<>> /\ call = ConstructedEntity /\ pushes = 0
    /\ pairLocal = EntityDefault
    /\ pairBuffer = <<>> /\ pairCall = ConstructedPair /\ pairPushes = 0
    /\ internalQueue = <<>> /\ bufferCall = ConstructedBuffer /\ bufferOps = 0
    /\ description = GetDefaultTransform /\ descriptionOther = GetDefaultTransform
    /\ descriptionCall = ConstructedTransform /\ descriptionOps = 0
    /\ cameraOptions = GetDefaultCameraOptions
    /\ optionsCall = ConstructedOptions /\ optionsOps = 0
    /\ camera \in {Camera(GetDefaultCameraOptions,
                          TransformDescription(<<0, 0, -5>>, <<0, 0, 0>>), view, projection) :
                      view \in UninitialisedViews, projection \in UninitialisedProjections}
    /\ cameraCall = ConstructedCamera /\ cameraOps = 0
    /\ tracker = MouseTracker /\ mouseEvents = <<>>
    /\ returned = <<>>
    /\ indexing = {} /\ gameMeshCount = ConstructedMeshCount /\ initRan = FALSE
    /\ entities = <<>> /\ randomCall = NoDraw /\ seedCheck = -1 /\ errno = 0
    /\ materialA = Material_default /\ materialB = Material_default
    /\ materialCall = ConstructedMaterial /\ materialOps = 0
    /\ transformValue = TRANSFORM(One, One, One, One, One, One, 0, 0, 0, 1)
    /\ transformArgs = <<<<One, One, One>>, <<One, One, One>>, <<0, 0, 0, 1>>>>
    /\ entityArgs = <<>>
    /\ gamePc = "constructed" /\ gameLoop = 0
    /\ meshObjects = <<>> /\ gameEntities = <<>> /\ meshHeap = NoMeshes
    /\ gameFrames = <<0, 0>> /\ staleUse = FALSE
    /\ unitVector = GetDefaultForward /\ unitOther = GetDefaultUp
    /\ unitCall = ConstructedUnitVector /\ unitOps = 0

SpecCamera == InitCamera /\ [][NextCamera]_vars

\* The calls of the Camera that can change its position or its orientation.
ViewMutators ==
    {"MoveBy", "MoveTo", "RotateBy", "RotateTo", "UpdatePosition", "UpdateRotation",
     "UpdatePosition(deltaTime)", "UpdateRotation(deltaTime)", "Reset"}

\* The view matrix of a position, a heading and an up vector.
ViewOf(position, heading, up) == XMMatrixTranspose(XMMatrixLookToLH(position, heading, up))

\* C15: after MoveBy, MoveTo, RotateBy, RotateTo, any UpdatePosition or
\* UpdateRotation overload, or Reset, the stored view matrix is the one
\* computed from the camera's current position, heading and up.
C15_ViewMatrixIsFresh ==
    cameraCall.op \in ViewMutators
    => camera.view = ViewOf(camera.transform.position, camera.transform.heading,
                            camera.transform.up)

\* C15 witness: MoveTo has moved the camera to (2, 0, 1), and the view
\* matrix it held before is no longer the one of its position.
C15_Witness ==
    /\ cameraCall.op = "MoveTo"
    /\ camera.transform.position = <<2, 0, 1>>
    /\ cameraCall.camera.transform.position # <<2, 0, 1>>
    /\ camera.view # cameraCall.camera.view
    /\ camera.view = ViewOf(<<2, 0, 1>>, camera.transform.heading, camera.transform.up)

\* The projection matrix of a CameraOptions.
ProjectionOf(o) ==
    XMMatrixTranspose(XMMatrixPerspectiveFovLH(GetFieldOfView(o), GetAspectRatio(o),
                                               GetNearClippingPlane(o),
                                               GetFarClippingPlane(o)))

\* C16: after SetFOV, SetClippingPlane or SetDimensions, the stored
\* projection matrix is the one computed from the camera's current field of
\* view, aspect ratio and near and far planes.
C16_ProjectionIsFresh ==
    cameraCall.op \in {"SetFOV", "SetClippingPlane", "SetDimensions"}
    => camera.projection = ProjectionOf(camera.settings)

\* C17: the view matrix a camera holds after MoveTo(p) is the view matrix
\* a freshly constructed camera holds at position p with the same
\* orientation, whatever its constructor left in the matrix.
C17_MoveToAsFreshCamera ==
    cameraCall.op = "MoveTo"
    => \A view \in UninitialisedViews, projection \in UninitialisedProjections :
           camera.view =
               Camera(camera.settings,
                      TransformDescription(cameraCall.arg, camera.transform.orientation),
                      view, projection).view

\* C18: for every vector d, the zero vector and the vectors whose
\* components sum to zero among them, UpdatePosition(d, true) leaves the
\* position at the old position plus d and UpdatePosition(d, false) leaves
\* it at d; UpdateRotation does the same to the orientation.
C18_UpdateAddsOrOverwrites ==
    /\ cameraCall.op = "UpdatePosition"
       => camera.transform.position =
              IF cameraCall.isRelative
              THEN AddFloat3(cameraCall.camera.transform.position, cameraCall.arg)
              ELSE cameraCall.arg
    /\ cameraCall.op = "UpdateRotation"
       => camera.transform.orientation =
              IF cameraCall.isRelative
              THEN AddFloat3(cameraCall.camera.transform.orientation, cameraCall.arg)
              ELSE cameraCall.arg

\* The calls that bring a new width and height to the camera.
ResizeCalls == {"SetDimensions", "Game::OnResize"}

\* C19: a window resize reaches Camera::SetDimensions(w, h); after it the
\* camera holds w and h, GetAspectRatio() is w / h, and the stored
\* projection matrix is the one computed with the aspect ratio w / h.
C19_ResizeRefreshesProjection ==
    cameraCall.op \in ResizeCalls
    => LET w == cameraCall.arg[1]
           h == cameraCall.arg[2]
       IN /\ GetWidth(camera.settings) = w
          /\ GetHeight(camera.settings) = h
          /\ GetAspectRatio(camera.settings) = Ratio(w, h)
          /\ camera.projection =
                 XMMatrixTranspose(
                     XMMatrixPerspectiveFovLH(GetFieldOfView(camera.settings), Ratio(w, h),
                                              GetNearClippingPlane(camera.settings),
                                              GetFarClippingPlane(camera.settings)))

\* C19 witness: Game::OnResize has brought 800 x 600 to a camera whose
\* aspect ratio was 16 / 9: the ratio is 4 / 3 and the first entry of the
\* projection matrix is cot(fov / 2) * 3 / 4.
C19_Witness ==
    /\ cameraCall.op = "Game::OnResize"
    /\ cameraCall.arg = <<800, 600, 0>>
    /\ GetAspectRatio(cameraCall.camera.settings) = <<16, 9>>
    /\ GetAspectRatio(camera.settings) = <<4, 3>>
    /\ camera.projection[1][1] = Entry(3, 4, 1)
    /\ camera.projection # cameraCall.camera.projection

\* The calls of the Camera that compute the projection matrix.
ProjectionCalls ==
    {"UpdateProjectionMatrix", "SetDimensions", "Reset", "Game::OnResize",
     "Game::CreateMatrices"}

\* C21: the angle CalculateProjectionMatrix passes to the perspective
\* projection is the configured field of view multiplied by pi, which is
\* what SetFieldOfView stores in fieldOfView (0.25 * pi for the default
\* options): the height entry of the stored matrix is cot of half that
\* angle.
C21_AngleIsFovTimesPi ==
    cameraCall.op \in ProjectionCalls
    => camera.projection[2][2] = Entry(1, 1, camera.settings.fieldOfView)

\* ------------------------------------------------------------------------
\* Game.cpp: the mouse handlers, driving Camera::tracker and the camera.
\* ------------------------------------------------------------------------

MaxMouseEvents == 3

\* The wParam of a mouse message: no button, MK_LBUTTON, MK_RBUTTON.
ButtonStates == {0, 1, 2}

MousePositions == {<<0, 0>>, <<1, 0>>, <<0, 1>>}

\* buttonState & 0x0001, converted to bool
LeftButton(buttonState) == buttonState % 2 = 1

\* MouseTracker::MouseTracker(const MouseTracker& other)
MT_copy(other) ==
    [previousButtonState |-> other.previousButtonState,
     currentButtonState |-> other.currentButtonState,
     previousMousePosition |-> other.previousMousePosition,
     currentMousePosition |-> other.currentMousePosition]

\* One mouse handler of Game: the tracker it leaves, the camera it leaves.
MouseHandled(op, buttonState, x, y, c) ==
    /\ Len(mouseEvents) < MaxMouseEvents
    /\ tracker' = Camera_UpdateMouse(tracker, LeftButton(buttonState), x, y)
    /\ mouseEvents' = Append(mouseEvents,
                             [op |-> op, position |-> <<x, y>>,
                              state |-> LeftButton(buttonState)])
    /\ camera' = c
    /\ cameraCall' = [camera |-> camera, op |-> op, isRelative |-> TRUE,
                      arg |-> <<0, 0, 0>>]
    /\ UNCHANGED cameraOps
    /\ UNCHANGED <<entityVars, pairVars, bufferVars, descriptionVars, optionVars, unitVars, meshVars, valueVars, materialVars, randomVars, lifeVars, copyVars>>

\* Game::OnMouseDown(buttonState, x, y)
Game_OnMouseDown(buttonState, x, y) ==
    MouseHandled("Game::OnMouseDown", buttonState, x, y, camera)

\* Game::OnMouseUp(buttonState, x, y)
Game_OnMouseUp(buttonState, x, y) ==
    MouseHandled("Game::OnMouseUp", buttonState, x, y, camera)

\* Game::OnMouseMove(buttonState, x, y)
Game_OnMouseMove(buttonState, x, y) ==
    LET trackerWatch == MT_copy(Camera_UpdateMouse(tracker, LeftButton(buttonState), x, y))
        delta == GetRawDelta(trackerWatch)
        rotation == <<delta[1], delta[2], 0>>
    IN  MouseHandled("Game::OnMouseMove", buttonState, x, y,
                     IF trackerWatch.currentButtonState
                     THEN Camera_UpdateRotation(camera, rotation, TRUE)
                     ELSE camera)

NextMouse ==
    \E buttonState \in ButtonStates, position \in MousePositions :
        \/ Game_OnMouseDown(buttonState, position[1], position[2])
        \/ Game_OnMouseUp(buttonState, position[1], position[2])
        \/ Game_OnMouseMove(buttonState, position[1], position[2])

\* The camera of Game once Game::Init has run CreateMatrices, and no mouse
\* event handled yet.
InitMouse ==
    /\ local = EntityDefault
    /\ transformBuffer = <<>> /\ call = ConstructedEntity /\ pushes = 0
    /\ pairLocal = EntityDefault
    /\ pairBuffer = <<>> /\ pairCall = ConstructedPair /\ pairPushes = 0
    /\ internalQueue = <<>> /\ bufferCall = ConstructedBuffer /\ bufferOps = 0
    /\ description = GetDefaultTransform /\ descriptionOther = GetDefaultTransform
    /\ descriptionCall = ConstructedTransform /\ descriptionOps = 0
    /\ cameraOptions = GetDefaultCameraOptions
    /\ optionsCall = ConstructedOptions /\ optionsOps = 0
    /\ camera \in {UpdateProjectionMatrix(UpdateViewMatrix(
                       Camera(GetDefaultCameraOptions,
                              TransformDescription(<<0, 0, -5>>, <<0, 0, 0>>),
                              view, projection))) :
                      view \in UninitialisedViews, projection \in UninitialisedProjections}
    /\ cameraCall = ConstructedCamera /\ cameraOps = 0
    /\ tracker = MouseTracker /\ mouseEvents = <<>>
    /\ returned = <<>>
    /\ indexing = {} /\ gameMeshCount = ConstructedMeshCount /\ initRan = FALSE
    /\ entities = <<>> /\ randomCall = NoDraw /\ seedCheck = -1 /\ errno = 0
    /\ materialA = Material_default /\ materialB = Material_default
    /\ materialCall = ConstructedMaterial /\ materialOps = 0
    /\ transformValue = TRANSFORM(One, One, One, One, One, One, 0, 0, 0, 1)
    /\ transformArgs = <<<<One, One, One>>, <<One, One, One>>, <<0, 0, 0, 1>>>>
    /\ entityArgs = <<>>
    /\ gamePc = "constructed" /\ gameLoop = 0
    /\ meshObjects = <<>> /\ gameEntities = <<>> /\ meshHeap = NoMeshes
    /\ gameFrames = <<0, 0>> /\ staleUse = FALSE
    /\ unitVector = GetDefaultForward /\ unitOther = GetDefaultUp
    /\ unitCall = ConstructedUnitVector /\ unitOps = 0

SpecMouse == InitMouse /\ [][NextMouse]_vars

\* The arguments of the Update call that is last but n, or the state the
\* constructor leaves when fewer calls were made.
UpdateArguments(n) ==
    IF Len(mouseEvents) > n
    THEN mouseEvents[Len(mouseEvents) - n]
    ELSE [op |-> "MouseTracker", position |-> <<0, 0>>, state |-> FALSE]

\* C22: after any sequence of MouseTracker::Update calls the previous button
\* state and position are the arguments of the second-to-last call (false
\* and (0, 0) when fewer than two calls were made), the current ones are the
\* arguments of the last call, and GetRawDelta() is the current position
\* minus the previous one.
C22_TrackerHoldsLastTwoUpdates ==
    /\ tracker.currentButtonState = UpdateArguments(0).state
    /\ tracker.currentMousePosition = UpdateArguments(0).position
    /\ tracker.previousButtonState = UpdateArguments(1).state
    /\ tracker.previousMousePosition = UpdateArguments(1).position
    /\ GetRawDelta(tracker) =
           <<UpdateArguments(0).position[1] - UpdateArguments(1).position[1],
             UpdateArguments(0).position[2] - UpdateArguments(1).position[2]>>

C22_Witness ==
    /\ Len(mouseEvents) = 3
    /\ mouseEvents[2] = [op |-> "Game::OnMouseDown", position |-> <<1, 0>>, state |-> TRUE]
    /\ mouseEvents[3] = [op |-> "Game::OnMouseMove", position |-> <<0, 1>>, state |-> FALSE]
    /\ tracker.previousButtonState /\ ~tracker.currentButtonState
    /\ tracker.previousMousePosition = <<1, 0>>
    /\ tracker.currentMousePosition = <<0, 1>>
    /\ GetRawDelta(tracker) = <<-1, 1>>

\* C23: a mouse move with the left button held and a displacement other
\* than (0, 0) since the previous mouse event adds (dx * 0.0025,
\* dy * 0.0025, 0) to the camera's orientation and refreshes the view
\* matrix; a mouse event with the button up leaves the orientation alone.
C23_DragRotatesCamera ==
    LET last == UpdateArguments(0)
        before == cameraCall.camera.transform.orientation
        dx == last.position[1] - UpdateArguments(1).position[1]
        dy == last.position[2] - UpdateArguments(1).position[2]
    IN  /\ (last.op = "Game::OnMouseMove" /\ last.state /\ <<dx, dy>> # <<0, 0>>)
           => /\ camera.transform.orientation = AddFloat3(before, <<dx, dy, 0>>)
              /\ camera.view = ViewOf(camera.transform.position,
                                      camera.transform.heading, camera.transform.up)
        /\ (Len(mouseEvents) > 0 /\ ~last.state)
           => camera.transform.orientation = before

\* ------------------------------------------------------------------------
\* Camera.cpp: the orientation accessors of TransformDescription and Camera.
\* ------------------------------------------------------------------------

\* A value-returning accessor that returns the orientation.
GetCurrentOrientation_orientation(t) == t.orientation

\* XMFLOAT3 TransformDescription::GetCurrentOrientation() const
GetCurrentOrientation(t) == t.position

\* void TransformDescription::GetCurrentOrientation(XMFLOAT3& target) const:
\* the value stored in target
GetCurrentOrientation_target(t) == t.orientation

\* XMFLOAT3 Camera::GetCurrentOrientation() const
Camera_GetCurrentOrientation(c) == GetCurrentOrientation(c.transform)

\* void Camera::GetCurrentOrientation(XMFLOAT3& target) const
Camera_GetCurrentOrientation_target(c) == GetCurrentOrientation_target(c.transform)

\* C24: the value-returning GetCurrentOrientation() returns the current
\* position, the out-parameter overload stores the orientation, so the two
\* differ whenever position and orientation differ.
C24_OrientationOverloadsDisagree ==
    /\ GetCurrentOrientation(description) = description.position
    /\ GetCurrentOrientation_target(description) = description.orientation
    /\ description.position # description.orientation
       => GetCurrentOrientation(description) # GetCurrentOrientation_target(description)
    /\ Camera_GetCurrentOrientation(camera) = camera.transform.position
    /\ Camera_GetCurrentOrientation_target(camera) = camera.transform.orientation

C24_Witness ==
    /\ descriptionCall.op = "Rotate"
    /\ description.position = <<2, 0, 1>>
    /\ description.orientation = <<1, 0, 0>>
    /\ GetCurrentOrientation(description) = <<2, 0, 1>>
    /\ GetCurrentOrientation_target(description) = <<1, 0, 0>>

\* ------------------------------------------------------------------------
\* Camera.cpp: the constructors and mutators of UnitVector.
\* ------------------------------------------------------------------------

MaxUnitOps == 3

\* Axis-aligned vectors, on which the normalisation is exact, and the zero
\* vector.
UnitInputs ==
    {<<0, 0, 0>>, <<2, 0, 0>>, <<0, -3, 0>>, <<0, 0, 1>>, <<-1, 0, 0>>}

\* UnitVector::UnitVector()
UnitVector_default == UnitVector(0, 0, 0)

\* UnitVector::UnitVector(XMFLOAT3 data)
UnitVector_float3(data) == UnitVector(data[1], data[2], data[3])

\* UnitVector::Set(x, y, z)
UnitVector_Set(x, y, z) == normalize(<<x, y, z>>)

\* swap(UnitVector& lhs, UnitVector& rhs)
UV_swap(lhs, rhs) == [lhs |-> rhs, rhs |-> lhs]

\* UnitVector::UnitVector(const UnitVector& other)
UV_copy(other) == other

\* UnitVector::UnitVector(UnitVector&& other): the new object and what is
\* left in other
UV_move(other) == UV_swap(UnitVector_default, other)

\* UnitVector::operator=(UnitVector other)
UV_assign(this, other) == UV_swap(this, UV_copy(other)).lhs

\* The length of a vector of floats.
Magnitude(v) ==
    IF NaN \in {v[1], v[2], v[3]} THEN NaN
    ELSE ISqrt((v[1] * v[1]) + (v[2] * v[2]) + (v[3] * v[3]))

UnitCalled(op, this, other, arg) ==
    /\ unitOps < MaxUnitOps
    /\ unitVector' = this
    /\ unitOther' = other
    /\ unitCall' = [op |-> op, arg |-> arg]
    /\ unitOps' = unitOps + 1
    /\ UNCHANGED <<entityVars, pairVars, bufferVars, descriptionVars, optionVars, cameraVars, mouseVars, meshVars, valueVars, materialVars, randomVars, lifeVars, copyVars>>

UV_Construct_default == UnitCalled("UnitVector()", UnitVector_default, unitOther, <<0, 0, 0>>)

UV_Construct(data) == UnitCalled("UnitVector(data)", UnitVector_float3(data), unitOther, data)

UV_Copied == UnitCalled("UnitVector(const UnitVector&)", UV_copy(unitOther), unitOther, unitOther)

UV_Moved ==
    UnitCalled("UnitVector(UnitVector&&)", UV_move(unitOther).lhs, UV_move(unitOther).rhs,
               unitOther)

UV_Assigned == UnitCalled("operator=", UV_assign(unitVector, unitOther), unitOther, unitOther)

UV_Swapped ==
    UnitCalled("swap", UV_swap(unitVector, unitOther).lhs, UV_swap(unitVector, unitOther).rhs,
               unitOther)

UV_WasSet(data) ==
    UnitCalled("Set", UnitVector_Set(data[1], data[2], data[3]), unitOther, data)

NextUnitVector ==
    \/ UV_Construct_default
    \/ \E data \in UnitInputs : UV_Construct(data)
    \/ UV_Copied
    \/ UV_Moved
    \/ UV_Assigned
    \/ UV_Swapped
    \/ \E data \in UnitInputs : UV_WasSet(data)

InitUnitVector ==
    /\ local = EntityDefault
    /\ transformBuffer = <<>> /\ call = ConstructedEntity /\ pushes = 0
    /\ pairLocal = EntityDefault
    /\ pairBuffer = <<>> /\ pairCall = ConstructedPair /\ pairPushes = 0
    /\ internalQueue = <<>> /\ bufferCall = ConstructedBuffer /\ bufferOps = 0
    /\ InitCameraFile

SpecUnitVector == InitUnitVector /\ [][NextUnitVector]_vars

\* The calls that build a UnitVector from components.
UnitConstructions == {"UnitVector()", "UnitVector(data)", "Set"}

\* C25: a UnitVector has unit length after every constructor, the default
\* and the move constructor included, and after every Set; built or set
\* from the zero vector it divides by a zero magnitude and holds the
\* quotients, no error being reported.
C25_UnitLength ==
    /\ unitCall.op \in UnitConstructions \cup {"UnitVector(UnitVector&&)"}
       => Magnitude(unitVector) = 1
    /\ (unitCall.op \in UnitConstructions /\ unitCall.arg = <<0, 0, 0>>)
       => unitVector = <<NaN, NaN, NaN>>

\* ------------------------------------------------------------------------
\* Game.cpp: the life of the meshes and the entities of Game.  ~Game takes
\* one step per loop iteration, so that the state between two resets is a
\* state of the model.
\* ------------------------------------------------------------------------

MaxFrames == 3

\* Game::CreateEntities: meshID cycles through the meshes.
EntityMesh(i) == ((i - 1) % MeshCount) + 1

\* Game::CreateBasicGeometry: meshObjects.push_back(std::make_shared<Mesh>(...))
\* for every mesh from id on.
RECURSIVE CreateBasicGeometry(_, _)
CreateBasicGeometry(heap, id) ==
    IF id > MeshCount THEN heap ELSE CreateBasicGeometry(Mesh_make(heap, id), id + 1)

\* Game::CreateEntities, from entity i on: the local pointer mesh is a copy
\* of meshObjects[meshID], the GameEntity copies it into sharedMesh, and the
\* local pointer is destroyed at the end of the iteration.
RECURSIVE CreateEntities(_, _)
CreateEntities(heap, i) ==
    IF i > GameEntityCount THEN heap
    ELSE LET mesh == EntityMesh(i)
             selected == SharedPtr_copy(heap, mesh)
             constructed == SharedPtr_copy(selected, mesh)
         IN  CreateEntities(SharedPtr_reset(constructed, mesh), i + 1)

\* Game::Draw, from entity i on: bufferMesh is a copy of the entity's
\* pointer, destroyed at the end of the iteration.
RECURSIVE DrawEntities(_, _)
DrawEntities(heap, i) ==
    IF i > Len(gameEntities) THEN heap
    ELSE DrawEntities(SharedPtr_reset(SharedPtr_copy(heap, gameEntities[i]), gameEntities[i]),
                      i + 1)

\* An entity of Game holds no mesh, or a mesh whose buffers were released.
SomeEntityIsStale ==
    \E i \in 1..Len(gameEntities) :
        \/ gameEntities[i] = 0
        \/ ~meshHeap[gameEntities[i]].vertexBuffer
        \/ ~meshHeap[gameEntities[i]].indexBuffer

\* Game::Init: CreateBasicGeometry, then CreateEntities
Game_Init ==
    /\ gamePc = "constructed"
    /\ gamePc' = "running"
    /\ meshObjects' = [id \in MeshIds |-> id]
    /\ gameEntities' = [i \in 1..GameEntityCount |-> EntityMesh(i)]
    /\ meshHeap' = CreateEntities(CreateBasicGeometry(meshHeap, 1), 1)
    /\ UNCHANGED <<gameLoop, gameFrames, staleUse>>
    /\ UNCHANGED <<entityVars, pairVars, bufferVars, descriptionVars, optionVars, cameraVars, mouseVars, unitVars, valueVars, materialVars, randomVars, lifeVars, copyVars>>

\* Game::Update: gameEntities[i]->Update(deltaTime, totalTime) for every i
Game_Update ==
    /\ gamePc = "running"
    /\ gameFrames[1] < MaxFrames
    /\ gameFrames' = <<gameFrames[1] + 1, gameFrames[2]>>
    /\ staleUse' = (staleUse \/ SomeEntityIsStale)
    /\ UNCHANGED <<gamePc, gameLoop, meshObjects, gameEntities, meshHeap>>
    /\ UNCHANGED <<entityVars, pairVars, bufferVars, descriptionVars, optionVars, cameraVars, mouseVars, unitVars, valueVars, materialVars, randomVars, lifeVars, copyVars>>

\* Game::Draw: every entity is drawn from the buffers of its mesh
Game_Draw ==
    /\ gamePc = "running"
    /\ gameFrames[2] < MaxFrames
    /\ gameFrames' = <<gameFrames[1], gameFrames[2] + 1>>
    /\ staleUse' = (staleUse \/ SomeEntityIsStale)
    /\ meshHeap' = DrawEntities(meshHeap, 1)
    /\ UNCHANGED <<gamePc, gameLoop, meshObjects, gameEntities>>
    /\ UNCHANGED <<entityVars, pairVars, bufferVars, descriptionVars, optionVars, cameraVars, mouseVars, unitVars, valueVars, materialVars, randomVars, lifeVars, copyVars>>

\* Game::~Game is entered once the game loop has ended.
Game_Destroy ==
    /\ gamePc = "running"
    /\ gamePc' = "~Game: gameEntities"
    /\ gameLoop' = 0
    /\ UNCHANGED <<meshObjects, gameEntities, meshHeap, gameFrames, staleUse>>
    /\ UNCHANGED <<entityVars, pairVars, bufferVars, descriptionVars, optionVars, cameraVars, mouseVars, unitVars, valueVars, materialVars, randomVars, lifeVars, copyVars>>

\* Game::~Game: gameEntities[i].reset(), which runs GameEntity::~GameEntity
\* and its sharedMesh.reset()
Game_Destroy_EntityReset ==
    /\ gamePc = "~Game: gameEntities"
    /\ gameLoop < GameEntityCount
    /\ gameLoop' = gameLoop + 1
    /\ meshHeap' = SharedPtr_reset(meshHeap, gameEntities[gameLoop + 1])
    /\ gameEntities' = [gameEntities EXCEPT ![gameLoop + 1] = 0]
    /\ UNCHANGED <<gamePc, meshObjects, gameFrames, staleUse>>
    /\ UNCHANGED <<entityVars, pairVars, bufferVars, descriptionVars, optionVars, cameraVars, mouseVars, unitVars, valueVars, materialVars, randomVars, lifeVars, copyVars>>

\* Game::~Game: gameEntities.clear() and the swap with an empty collection
Game_Destroy_EntitiesCleared ==
    /\ gamePc = "~Game: gameEntities"
    /\ gameLoop = GameEntityCount
    /\ gamePc' = "~Game: meshObjects"
    /\ gameLoop' = 0
    /\ gameEntities' = <<>>
    /\ UNCHANGED <<meshObjects, meshHeap, gameFrames, staleUse>>
    /\ UNCHANGED <<entityVars, pairVars, bufferVars, descriptionVars, optionVars, cameraVars, mouseVars, unitVars, valueVars, materialVars, randomVars, lifeVars, copyVars>>

\* Game::~Game: meshObjects[i].reset()
Game_Destroy_MeshReset ==
    /\ gamePc = "~Game: meshObjects"
    /\ gameLoop < MeshCount
    /\ gameLoop' = gameLoop + 1
    /\ meshHeap' = SharedPtr_reset(meshHeap, meshObjects[gameLoop + 1])
    /\ meshObjects' = [meshObjects EXCEPT ![gameLoop + 1] = 0]
    /\ UNCHANGED <<gamePc, gameEntities, gameFrames, staleUse>>
    /\ UNCHANGED <<entityVars, pairVars, bufferVars, descriptionVars, optionVars, cameraVars, mouseVars, unitVars, valueVars, materialVars, randomVars, lifeVars, copyVars>>

\* Game::~Game: meshObjects.clear() and the swap with an empty collection
Game_Destroy_MeshesCleared ==
    /\ gamePc = "~Game: meshObjects"
    /\ gameLoop = MeshCount
    /\ gamePc' = "destroyed"
    /\ meshObjects' = <<>>
    /\ UNCHANGED <<gameLoop, gameEntities, meshHeap, gameFrames, staleUse>>
    /\ UNCHANGED <<entityVars, pairVars, bufferVars, descriptionVars, optionVars, cameraVars, mouseVars, unitVars, valueVars, materialVars, randomVars, lifeVars, copyVars>>

NextGame ==
    \/ Game_Init
    \/ Game_Update
    \/ Game_Draw
    \/ Game_Destroy
    \/ Game_Destroy_EntityReset
    \/ Game_Destroy_EntitiesCleared
    \/ Game_Destroy_MeshReset
    \/ Game_Destroy_MeshesCleared

InitGame ==
    /\ local = EntityDefault
    /\ transformBuffer = <<>> /\ call = ConstructedEntity /\ pushes = 0
    /\ pairLocal = EntityDefault
    /\ pairBuffer = <<>> /\ pairCall = ConstructedPair /\ pairPushes = 0
    /\ internalQueue = <<>> /\ bufferCall = ConstructedBuffer /\ bufferOps = 0
    /\ InitCameraFile

SpecGame == InitGame /\ [][NextGame]_vars

\* The pointers to mesh id that Game::meshObjects and the entities hold.
Holders(id) ==
    Cardinality({i \in 1..Len(meshObjects) : meshObjects[i] = id})
    + Cardinality({i \in 1..Len(gameEntities) : gameEntities[i] = id})

\* C26: the vertex and the index buffer of each Mesh are released exactly
\* once, and only after Game's mesh collection and every GameEntity sharing
\* the mesh have dropped their references; no entity is updated or drawn
\* with a mesh whose buffers were released.
C26_MeshReleasedOnceAfterLastOwner ==
    /\ \A id \in MeshIds :
          /\ meshHeap[id].vertexReleases <= 1
          /\ meshHeap[id].indexReleases <= 1
          /\ (meshHeap[id].vertexReleases > 0 \/ meshHeap[id].indexReleases > 0)
             => Holders(id) = 0
          /\ gamePc = "destroyed"
             => meshHeap[id].vertexReleases = 1 /\ meshHeap[id].indexReleases = 1
          /\ meshHeap[id].useCount = Holders(id)
    /\ ~staleUse

C26_Witness ==
    /\ gamePc = "~Game: meshObjects"
    /\ gameFrames = <<2, 1>>
    /\ gameLoop = 1
    /\ meshHeap[1].vertexReleases = 1 /\ meshHeap[1].indexReleases = 1
    /\ ~meshHeap[1].vertexBuffer
    /\ meshHeap[2].vertexReleases = 0 /\ meshHeap[2].vertexBuffer
    /\ meshObjects = <<0, 2>>

\* ------------------------------------------------------------------------
\* TransformBuffer.cpp: the mutators of the front item's tags, and the
\* zero-vector tests.
\* ------------------------------------------------------------------------

TransformType == {T_NONE, T_POSITION, T_SCALE, T_ROTATION}

TagFloat3 == {<<0, 0, 0>>, <<1, -1, 0>>}

TagFloat4 == {<<0, 0, 0, 1>>}

\* TransformBuffer::change_item_type(type): the front item is copied into
\* the local variable item, and the type of the copy is set.
change_item_type(queue, type) ==
    LET item == [peek_item(queue) EXCEPT !.type = type]
    IN  queue

\* TransformBuffer::change_item_scope(scope): the front item is copied into
\* the local variable item, and the scope of the copy is set.
change_item_scope(queue, scope) ==
    LET item == [peek_item(queue) EXCEPT !.scope = scope]
    IN  queue

\* TransformBuffer::IsZeroVector(item)
IsZeroVector(item) ==
    LET data == get_data(item)
        magnitude == data[1] + data[2] + data[3] + data[4]
    IN  magnitude = 0

\* TransformBuffer::IsNonZeroVector(item)
IsNonZeroVector(item) == ~IsZeroVector(item)

\* A call that is given an argument or returns a result, kept in arg.
BufferTagCalled(op, queue, arg) ==
    /\ bufferOps < MaxBufferOps
    /\ ~is_empty(internalQueue)
    /\ internalQueue' = queue
    /\ bufferCall' = [queue |-> internalQueue, fault |-> FALSE, op |-> op, arg |-> arg]
    /\ bufferOps' = bufferOps + 1
    /\ UNCHANGED <<entityVars, pairVars, descriptionVars, optionVars, cameraVars, mouseVars, unitVars, meshVars, valueVars, materialVars, randomVars, lifeVars, copyVars>>

TB_change_item_type(type) ==
    BufferTagCalled("change_item_type", change_item_type(internalQueue, type), type)

TB_change_item_scope(scope) ==
    BufferTagCalled("change_item_scope", change_item_scope(internalQueue, scope), scope)

\* IsZeroVector and IsNonZeroVector, called on the front item.
TB_IsZeroVector ==
    BufferTagCalled("IsZeroVector", internalQueue, IsZeroVector(peek_item(internalQueue)))

TB_IsNonZeroVector ==
    BufferTagCalled("IsNonZeroVector", internalQueue, IsNonZeroVector(peek_item(internalQueue)))

NextBufferTags ==
    \/ \E v \in TagFloat3, scope \in {S_ABSOLUTE, S_RELATIVE} : TB_push_position(v, scope)
    \/ \E q \in TagFloat4 : TB_push_rotation(q, S_ABSOLUTE)
    \/ TB_pop
    \/ \E type \in TransformType : TB_change_item_type(type)
    \/ \E scope \in TransformScope : TB_change_item_scope(scope)
    \/ TB_IsZeroVector
    \/ TB_IsNonZeroVector

InitBufferTags ==
    /\ local = EntityDefault
    /\ transformBuffer = <<>> /\ call = ConstructedEntity /\ pushes = 0
    /\ pairLocal = EntityDefault
    /\ pairBuffer = <<>> /\ pairCall = ConstructedPair /\ pairPushes = 0
    /\ internalQueue = <<>> /\ bufferCall = ConstructedBuffer /\ bufferOps = 0
    /\ InitCameraFile

SpecBufferTags == InitBufferTags /\ [][NextBufferTags]_vars

\* C27: change_item_type(t) and change_item_scope(s) change the tag of the
\* front item of the queue: after the call next_type() returns t
\* (next_scope() returns s), and the payload of the front item and every
\* other item are as before.
C27_FrontTagChanged ==
    /\ bufferCall.op = "change_item_type"
       => /\ next_type(internalQueue) = bufferCall.arg
          /\ internalQueue = [bufferCall.queue EXCEPT ![1].type = bufferCall.arg]
    /\ bufferCall.op = "change_item_scope"
       => /\ next_scope(internalQueue) = bufferCall.arg
          /\ internalQueue = [bufferCall.queue EXCEPT ![1].scope = bufferCall.arg]

\* C28: IsZeroVector(item) is true exactly when the four components of the
\* item's payload are zero, and IsNonZeroVector is its negation; an item
\* with a component that is not zero, such as (1, -1, 0, 0), is never
\* reported as zero.
C28_ZeroVectorTest ==
    /\ bufferCall.op = "IsZeroVector"
       => (bufferCall.arg <=> get_data(peek_item(internalQueue)) = <<0, 0, 0, 0>>)
    /\ bufferCall.op = "IsNonZeroVector"
       => (bufferCall.arg <=> get_data(peek_item(internalQueue)) # <<0, 0, 0, 0>>)

\* ------------------------------------------------------------------------
\* Transform.h: the ten-argument constructor of TRANSFORM, and the
\* GameEntity built from its result.
\* ------------------------------------------------------------------------

ValuePositions ==
    {<<0, 0, 0>>, <<One, One, One>>, <<-2, 1, 0>>, <<0, 2, 0>>, <<1, 0, -1>>, <<6, 6, 6>>}

ValueScales == {<<0, 0, 0>>, <<One, One, One>>, <<6, 6, 6>>, <<-2, 1, 0>>}

ValueRotations == {<<0, 0, 0, 1>>, <<1, 0, 0, 0>>}

\* TRANSFORM t(px, py, pz, sx, sy, sz, rx, ry, rz, rw)
TRANSFORM_Constructed(p, s, r) ==
    /\ transformValue' = TRANSFORM(p[1], p[2], p[3], s[1], s[2], s[3], r[1], r[2], r[3], r[4])
    /\ transformArgs' = <<p, s, r>>
    /\ UNCHANGED entityArgs
    /\ UNCHANGED <<entityVars, pairVars, bufferVars, descriptionVars, optionVars, cameraVars, mouseVars, unitVars, meshVars, materialVars, randomVars, lifeVars, copyVars>>

\* GameEntity entity(mesh, t)
GameEntity_fromValue ==
    /\ entityArgs' = transformArgs
    /\ local' = EntityFromTransform(transformValue)
    /\ transformBuffer' = <<>>
    /\ call' = [fault |-> FALSE, emptyPeek |-> FALSE,
                local |-> EntityFromTransform(transformValue), popped |-> <<>>,
                resolved |-> <<>>, op |-> "GameEntity(mesh, t)", buffer |-> <<>>,
                drained |-> <<>>]
    /\ pushes' = 0
    /\ UNCHANGED <<transformValue, transformArgs>>
    /\ UNCHANGED <<pairVars, bufferVars, descriptionVars, optionVars, cameraVars, mouseVars, unitVars, meshVars, materialVars, randomVars, lifeVars, copyVars>>

NextValue ==
    \/ \E p \in ValuePositions, s \in ValueScales, r \in ValueRotations :
           TRANSFORM_Constructed(p, s, r)
    \/ GameEntity_fromValue

InitValue ==
    /\ local = EntityDefault
    /\ transformBuffer = <<>> /\ call = ConstructedEntity /\ pushes = 0
    /\ pairLocal = EntityDefault
    /\ pairBuffer = <<>> /\ pairCall = ConstructedPair /\ pairPushes = 0
    /\ internalQueue = <<>> /\ bufferCall = ConstructedBuffer /\ bufferOps = 0
    /\ InitCameraFile

SpecValue == InitValue /\ [][NextValue]_vars

\* C29: the ten-argument TRANSFORM constructor stores each argument in the
\* field of its name: GetPosition() is (px, py, pz), GetScale() is
\* (sx, sy, sz) and GetRotation() is (rx, ry, rz, rw), and a GameEntity
\* built from the TRANSFORM starts with that scale.
C29_ArgumentsStoredInOwnFields ==
    /\ GetPosition(transformValue) = transformArgs[1]
    /\ GetScale(transformValue) = transformArgs[2]
    /\ GetRotation(transformValue) = transformArgs[3]
    /\ entityArgs # <<>> => GetScale(local) = entityArgs[2]

\* ------------------------------------------------------------------------
\* Transform.h: Material, constructed, copied, moved and assigned.
\* ------------------------------------------------------------------------

MaxMaterialOps == 3

VertexShaders == {1, 2}

PixelShaders == {3, 4}

MaterialCalled(op, a, b) ==
    /\ materialOps < MaxMaterialOps
    /\ materialA' = a
    /\ materialB' = b
    /\ materialCall' = [op |-> op, lhs |-> materialA, rhs |-> materialB]
    /\ materialOps' = materialOps + 1
    /\ UNCHANGED <<entityVars, pairVars, bufferVars, descriptionVars, optionVars, cameraVars, mouseVars, unitVars, meshVars, valueVars, randomVars, lifeVars, copyVars>>

\* Material b(vShd, pShd)
Material_Constructed(vShd, pShd) ==
    MaterialCalled("Material(vShd, pShd)", materialA, Material(vShd, pShd))

\* Material a(b)
Material_Copied == MaterialCalled("Material(const Material&)", Material_copy(materialB), materialB)

\* Material a(std::move(b))
Material_Moved ==
    MaterialCalled("Material(Material&&)", Material_move(materialB).lhs,
                   Material_move(materialB).rhs)

\* a = b
Material_Assigned ==
    MaterialCalled("operator=(copy)", Material_assign(materialA, materialB), materialB)

\* a = std::move(b)
Material_MoveAssigned ==
    MaterialCalled("operator=(move)", Material_assign_move(materialA, materialB).lhs,
                   Material_assign_move(materialA, materialB).rhs)

\* swap(a, b)
Material_Swapped ==
    MaterialCalled("swap", Material_swap(materialA, materialB).lhs,
                   Material_swap(materialA, materialB).rhs)

NextMaterial ==
    \/ \E vShd \in VertexShaders, pShd \in PixelShaders : Material_Constructed(vShd, pShd)
    \/ Material_Copied
    \/ Material_Moved
    \/ Material_Assigned
    \/ Material_MoveAssigned
    \/ Material_Swapped

InitMaterial ==
    /\ local = EntityDefault
    /\ transformBuffer = <<>> /\ call = ConstructedEntity /\ pushes = 0
    /\ pairLocal = EntityDefault
    /\ pairBuffer = <<>> /\ pairCall = ConstructedPair /\ pairPushes = 0
    /\ internalQueue = <<>> /\ bufferCall = ConstructedBuffer /\ bufferOps = 0
    /\ InitCameraFile

SpecMaterial == InitMaterial /\ [][NextMaterial]_vars

\* C30: the copy-and-swap assignment and the move construction of Material
\* transfer both handles: after a = b (copy or move) or
\* Material a(std::move(b)), the vertex shader and the pixel shader of a are
\* the ones b held before the operation.
C30_BothHandlesTransferred ==
    materialCall.op \in {"operator=(copy)", "operator=(move)", "Material(Material&&)"}
    => /\ materialA.vertexShader = materialCall.rhs.vertexShader
       /\ materialA.pixelShader = materialCall.rhs.pixelShader

\* ------------------------------------------------------------------------
\* Camera.cpp: Reset, after the mutators of the camera's
\* TransformDescription.  The variable description keeps the
\* TransformDescription the camera was constructed from.
\* ------------------------------------------------------------------------

MaxResetOps == 3

ResetPositions == {<<1, -1, 0>>, <<2, 0, 1>>}

ResetRotations == {<<1, -1, 0>>, <<1, 0, 0>>}

ResetCalled(op, c, arg, isRelative) ==
    /\ cameraOps < MaxResetOps
    /\ camera' = c
    /\ cameraCall' = [camera |-> camera, op |-> op, isRelative |-> isRelative, arg |-> arg]
    /\ cameraOps' = cameraOps + 1
    /\ UNCHANGED <<entityVars, pairVars, bufferVars, descriptionVars, optionVars, mouseVars, unitVars, meshVars, valueVars, materialVars, randomVars, lifeVars, copyVars>>

\* Camera::MoveBy, which calls TransformDescription::Translate
Reset_Translate(delta) == ResetCalled("MoveBy", Camera_MoveBy(camera, delta), delta, TRUE)

\* Camera::MoveTo, which calls TransformDescription::SetPosition
Reset_SetPosition(absolute) ==
    ResetCalled("MoveTo", Camera_MoveTo(camera, absolute), absolute, FALSE)

\* Camera::RotateBy, which calls TransformDescription::Rotate
Reset_Rotate(delta) == ResetCalled("RotateBy", Camera_RotateBy(camera, delta), delta, TRUE)

\* Camera::RotateTo, which calls TransformDescription::SetRotation
Reset_SetRotation(absolute) ==
    ResetCalled("RotateTo", Camera_RotateTo(camera, absolute), absolute, FALSE)

Reset_UpdatePosition(speed, isRelative) ==
    ResetCalled("UpdatePosition", Camera_UpdatePosition(camera, speed, isRelative),
                speed, isRelative)

Reset_UpdateRotation(speed, isRelative) ==
    ResetCalled("UpdateRotation", Camera_UpdateRotation(camera, speed, isRelative),
                speed, isRelative)

\* Camera::Reset, which calls TransformDescription::Reset
Reset_Reset == ResetCalled("Reset", Camera_Reset(camera), <<0, 0, 0>>, FALSE)

NextReset ==
    \/ \E delta \in ResetPositions : Reset_Translate(delta)
    \/ \E absolute \in ResetPositions : Reset_SetPosition(absolute)
    \/ \E delta \in ResetRotations : Reset_Rotate(delta)
    \/ \E absolute \in ResetRotations : Reset_SetRotation(absolute)
    \/ \E speed \in ResetPositions, isRelative \in BOOLEAN :
           Reset_UpdatePosition(speed, isRelative)
    \/ \E speed \in ResetRotations, isRelative \in BOOLEAN :
           Reset_UpdateRotation(speed, isRelative)
    \/ Reset_Reset

\* A camera constructed from a TransformDescription built with a position
\* and a rotation.
InitReset ==
    /\ local = EntityDefault
    /\ transformBuffer = <<>> /\ call = ConstructedEntity /\ pushes = 0
    /\ pairLocal = EntityDefault
    /\ pairBuffer = <<>> /\ pairCall = ConstructedPair /\ pairPushes = 0
    /\ internalQueue = <<>> /\ bufferCall = ConstructedBuffer /\ bufferOps = 0
    /\ description \in {TransformDescription(position, rotation) :
                           position \in ResetPositions, rotation \in ResetRotations}
    /\ descriptionOther = GetDefaultTransform
    /\ descriptionCall = ConstructedTransform /\ descriptionOps = 0
    /\ cameraOptions = GetDefaultCameraOptions
    /\ optionsCall = ConstructedOptions /\ optionsOps = 0
    /\ camera \in {Camera(GetDefaultCameraOptions, description, view, projection) :
                      view \in UninitialisedViews, projection \in UninitialisedProjections}
    /\ cameraCall = ConstructedCamera /\ cameraOps = 0
    /\ tracker = MouseTracker /\ mouseEvents = <<>>
    /\ returned = <<>>
    /\ indexing = {} /\ gameMeshCount = ConstructedMeshCount /\ initRan = FALSE
    /\ entities = <<>> /\ randomCall = NoDraw /\ seedCheck = -1 /\ errno = 0
    /\ materialA = Material_default /\ materialB = Material_default
    /\ materialCall = ConstructedMaterial /\ materialOps = 0
    /\ transformValue = TRANSFORM(One, One, One, One, One, One, 0, 0, 0, 1)
    /\ transformArgs = <<<<One, One, One>>, <<One, One, One>>, <<0, 0, 0, 1>>>>
    /\ entityArgs = <<>>
    /\ gamePc = "constructed" /\ gameLoop = 0
    /\ meshObjects = <<>> /\ gameEntities = <<>> /\ meshHeap = NoMeshes
    /\ gameFrames = <<0, 0>> /\ staleUse = FALSE
    /\ unitVector = GetDefaultForward /\ unitOther = GetDefaultUp
    /\ unitCall = ConstructedUnitVector /\ unitOps = 0

SpecReset == InitReset /\ [][NextReset]_vars

\* C31: no mutator changes position_start or orientation_start; after any
\* sequence of Translate, Rotate, SetPosition, SetRotation, UpdatePosition
\* and UpdateRotation calls, Reset restores the position and the
\* orientation given at construction, and Camera::Reset leaves the view
\* matrix that of the restored transform.
C31_ResetRestoresStart ==
    /\ camera.transform.position_start = description.position
    /\ camera.transform.orientation_start = description.orientation
    /\ cameraCall.op = "Reset"
       => /\ camera.transform.position = description.position
          /\ camera.transform.orientation = description.orientation
          /\ camera.transform.heading = description.heading
          /\ camera.transform.up = description.up
          /\ camera.view = ViewOf(description.position, description.heading, description.up)

C31_Witness ==
    /\ cameraOps = 3
    /\ cameraCall.op = "Reset"
    /\ description.position = <<2, 0, 1>>
    /\ description.orientation = <<1, 0, 0>>
    /\ cameraCall.camera.transform.position = <<1, -1, 0>>
    /\ cameraCall.camera.transform.orientation = <<2, -1, 0>>
    /\ camera.transform.position = <<2, 0, 1>>
    /\ camera.transform.orientation = <<1, 0, 0>>

\* XMFLOAT3 TransformDescription::GetBaseOrientation() const
GetBaseOrientation(t) == t.orientation

\* void TransformDescription::GetBaseOrientation(XMFLOAT3& target) const:
\* the value stored in target
GetBaseOrientation_target(t) == t.orientation

\* C32: GetBaseOrientation returns the orientation the object was
\* constructed with: it equals orientation_start in every state, and no
\* Rotate, SetRotation or UpdateRotation call changes it.
C32_BaseOrientationIsStart ==
    /\ GetBaseOrientation(description) = description.orientation_start
    /\ GetBaseOrientation_target(description) = description.orientation_start
    /\ descriptionCall.op \in {"Rotate", "SetRotation", "UpdateRotation",
                               "UpdateRotation(deltaTime)"}
       => GetBaseOrientation(description) = GetBaseOrientation(descriptionCall.td)

\* ---------------------------------------------------------------------------
\* rand(): Game::CreateEntities of the earliest generation and
\* GameEntity::GetRandomFloat.
\* ---------------------------------------------------------------------------

\* RAND_MAX of the C runtime the program is built with (the Visual C++ one).
RAND_MAX == 32767

\* Game::meshCount and the size of Game::meshObjects after CreateBasicGeometry.
meshCount == 3

\* Game::entityCount (9 in the source).
entityCount == 3

\* EDOM of <errno.h>.
EDOM == 33

\* The values rand() returns: 0..RAND_MAX, drawn at both ends and at each
\* side of the multiples of RAND_MAX / meshCount.
RandValues ==
    {0, 1, RAND_MAX - 1, RAND_MAX}
    \cup UNION {{k * (RAND_MAX \div meshCount) - 1, k * (RAND_MAX \div meshCount)} :
                    k \in 1..meshCount}

\* The element a read of meshObjects[i] yields: the mesh i, or the outcome of
\* a read past the end of the vector.
OutOfBounds == -1

MeshObjectsAt(i) == IF i < meshCount THEN i ELSE OutOfBounds

\* static_cast<unsigned int>(rand()) / static_cast<int>(RAND_MAX / meshCount)
MeshTypeOf(r) == r \div (RAND_MAX \div meshCount)

\* One iteration of the loop of Game::CreateEntities.
Game_CreateEntities_push(r) ==
    /\ Len(entities) < entityCount
    /\ entities' = Append(entities, MeshObjectsAt(MeshTypeOf(r)))
    /\ randomCall' = <<"CreateEntities", r, 0, meshCount, FALSE, MeshTypeOf(r)>>
    /\ UNCHANGED <<seedCheck, errno>>
    /\ UNCHANGED <<entityVars, pairVars, bufferVars, descriptionVars, optionVars, cameraVars, mouseVars, unitVars, meshVars, valueVars, materialVars, lifeVars, copyVars>>

\* The arguments of GetRandomFloat, in units of 1.0f.
RandomBounds == {-1, 0, 1}

\* min + ((float)rand() / ((float)RAND_MAX / range)), in units of 1 / RAND_MAX.
RandomFloatOf(min, max, r) == min * RAND_MAX + r * (max - min)

\* const float GameEntity::GetRandomFloat(float min, float max)
GameEntity_GetRandomFloat(min, max, r) ==
    /\ seedCheck' = 1
    /\ IF min >= max
       THEN /\ errno' = EDOM
            /\ randomCall' = <<"GetRandomFloat", 0, min, max, TRUE, 0>>
       ELSE /\ errno' = errno
            /\ randomCall' = <<"GetRandomFloat", r, min, max, FALSE, RandomFloatOf(min, max, r)>>
    /\ UNCHANGED entities
    /\ UNCHANGED <<entityVars, pairVars, bufferVars, descriptionVars, optionVars, cameraVars, mouseVars, unitVars, meshVars, valueVars, materialVars, lifeVars, copyVars>>

NextRandom ==
    \/ \E r \in RandValues : Game_CreateEntities_push(r)
    \/ \E min \in RandomBounds, max \in RandomBounds, r \in RandValues :
           GameEntity_GetRandomFloat(min, max, r)

InitRandom ==
    /\ local = EntityDefault
    /\ transformBuffer = <<>> /\ call = ConstructedEntity /\ pushes = 0
    /\ pairLocal = EntityDefault
    /\ pairBuffer = <<>> /\ pairCall = ConstructedPair /\ pairPushes = 0
    /\ internalQueue = <<>> /\ bufferCall = ConstructedBuffer /\ bufferOps = 0
    /\ InitCameraFile

SpecRandom == InitRandom /\ [][NextRandom]_vars

\* C33: the mesh type CreateEntities computes from rand() is always in
\* 0..meshCount-1, so that meshObjects[meshType] is never read out of bounds.
C33_MeshTypeInRange ==
    /\ randomCall[1] = "CreateEntities" => randomCall[6] \in 0..(meshCount - 1)
    /\ \A j \in 1..Len(entities) : entities[j] # OutOfBounds

\* C34: GetRandomFloat(min, max) with min < max returns a value in
\* [min, max) for every rand(); with min >= max it returns NaN and sets errno
\* to EDOM.
C34_RandomFloatHalfOpen ==
    randomCall[1] = "GetRandomFloat"
    => IF randomCall[3] < randomCall[4]
       THEN /\ ~randomCall[5]
            /\ randomCall[3] * RAND_MAX <= randomCall[6]
            /\ randomCall[6] < randomCall[4] * RAND_MAX
       ELSE randomCall[5] /\ errno = EDOM

\* Every value GetRandomFloat returns for min < max lies in [min, max], and
\* max itself is returned exactly when rand() is RAND_MAX.
RandomFloatClosed ==
    randomCall[1] = "GetRandomFloat"
    => IF randomCall[3] < randomCall[4]
       THEN /\ ~randomCall[5]
            /\ randomCall[3] * RAND_MAX <= randomCall[6]
            /\ randomCall[6] <= randomCall[4] * RAND_MAX
            /\ randomCall[6] = randomCall[4] * RAND_MAX <=> randomCall[2] = RAND_MAX
       ELSE randomCall[5] /\ errno = EDOM

\* The mesh type is meshCount exactly for rand() >= meshCount * (RAND_MAX / meshCount).
MeshTypeAtMost ==
    randomCall[1] = "CreateEntities"
    => /\ randomCall[6] \in 0..meshCount
       /\ randomCall[6] = meshCount <=> randomCall[2] >= meshCount * (RAND_MAX \div meshCount)

\* C35: in the pair generation Rotate(pitch, yaw, roll) enqueues the product
\* of the current orientation and the roll-pitch-yaw quaternion q, and the
\* next Update leaves the rotation equal to that product, different from the
\* rotation before whenever q is not the identity.
C35_RotateEnqueuesProduct ==
    pairCall.op = "Rotate"
    => \E a \in RotateAngles :
           LET q == XMQuaternionRotationRollPitchYaw(a[1], a[2], a[3])
               product == XMQuaternionMultiply(GetRotation(pairCall.local), q)
               updated == PairDrainFrom(pairLocal, pairBuffer).local
           IN /\ pairBuffer[Len(pairBuffer)].second = product
              /\ GetRotation(updated) = product
              /\ q # XMQuaternionIdentity => GetRotation(updated) # GetRotation(pairCall.local)

\* What Rotate of the pair generation enqueues is the orientation the entity
\* has at the call, so that the next Update leaves the rotation as it was.
PairRotateEnqueuesCurrent ==
    pairCall.op = "Rotate"
    => /\ pairBuffer[Len(pairBuffer)].second = GetRotation(pairCall.local)
       /\ GetRotation(PairDrainFrom(pairLocal, pairBuffer).local) = GetRotation(pairCall.local)

\* ---------------------------------------------------------------------------
\* Game.cpp: the keyboard handling of Game::Update.
\* ---------------------------------------------------------------------------

\* The most frames of keyboard input, and the most keys held in one frame.
MaxKeyFrames == 2

MaxHeldKeys == 2

\* The keys GetAsyncKeyState is asked about.
Keys == {"SPACEBAR", "X", "W", "S", "A", "D", "Q", "E", "R", "TAB"}

\* Game::CreateInput: keyMap, in the order std::map<ACTION, std::string>
\* iterates (the order of the enumerators of ACTION), each input as the set
\* of keys that must all be down.
keyMap ==
    << <<"CAMERA_MOVE_UP", {"SPACEBAR"}>>, <<"CAMERA_MOVE_DOWN", {"X"}>>,
       <<"CAMERA_MOVE_FORWARD", {"W"}>>, <<"CAMERA_MOVE_BACKWARD", {"S"}>>,
       <<"CAMERA_MOVE_LEFT", {"A"}>>, <<"CAMERA_MOVE_RIGHT", {"D"}>>,
       <<"CAMERA_PITCH_UP", {"R", "W"}>>, <<"CAMERA_PITCH_DOWN", {"R", "S"}>>,
       <<"CAMERA_TURN_LEFT", {"Q"}>>, <<"CAMERA_TURN_RIGHT", {"E"}>>,
       <<"CAMERA_ROLL_LEFT", {"R", "A"}>>, <<"CAMERA_ROLL_RIGHT", {"R", "D"}>>,
       <<"MODIFIER_RESET", {"TAB"}>>, <<"MODIFIER_ROTATE", {"R"}>> >>

\* keyCodes[input] after the first loop of Game::Update: every key of the
\* input is down.
keyCodes(pressed, input) == input \subseteq pressed

\* speed * deltaTime and angularSpeedInRadians * deltaTime for a frame of
\* 2.5 s: half a turn, in units of pi, and 12.5, the unit positions have in
\* this part of the model.
deltaSpeed == 1

deltaRadians == 1

\* What one case of the two switch statements adds to cam_deltaPosition and
\* to cam_deltaRotation.
KeyDelta(key, rotationModifier, heading) ==
    LET right_safe == Cross3(heading, GetDefaultUp)
        none == <<0, 0, 0>>
    IN IF rotationModifier
       THEN CASE key = "CAMERA_TURN_RIGHT" -> <<none, <<deltaRadians, 0, 0>>>>
              [] key = "CAMERA_TURN_LEFT" -> <<none, <<0 - deltaRadians, 0, 0>>>>
              [] key = "CAMERA_PITCH_UP" -> <<none, <<0, 0 - deltaRadians, 0>>>>
              [] key = "CAMERA_PITCH_DOWN" -> <<none, <<0, deltaRadians, 0>>>>
              [] key = "CAMERA_ROLL_RIGHT" -> <<none, <<0, 0, 0 - deltaRadians>>>>
              [] key = "CAMERA_ROLL_LEFT" -> <<none, <<0, 0, deltaRadians>>>>
              [] OTHER -> <<none, none>>
       ELSE CASE key = "CAMERA_TURN_RIGHT" -> <<none, <<deltaRadians, 0, 0>>>>
              [] key = "CAMERA_TURN_LEFT" -> <<none, <<0 - deltaRadians, 0, 0>>>>
              [] key = "CAMERA_MOVE_UP" -> <<<<0, deltaSpeed, 0>>, none>>
              [] key = "CAMERA_MOVE_DOWN" -> <<<<0, 0 - deltaSpeed, 0>>, none>>
              [] key = "CAMERA_MOVE_FORWARD" -> <<ScaleFloat3(heading, deltaSpeed), none>>
              [] key = "CAMERA_MOVE_BACKWARD" -> <<ScaleFloat3(heading, 0 - deltaSpeed), none>>
              [] key = "CAMERA_MOVE_LEFT" -> <<ScaleFloat3(right_safe, deltaSpeed), none>>
              [] key = "CAMERA_MOVE_RIGHT" -> <<ScaleFloat3(right_safe, 0 - deltaSpeed), none>>
              [] OTHER -> <<none, none>>

\* One iteration of the loop over keyMap, on <<camera, cam_deltaPosition,
\* cam_deltaRotation>>: Reset for the reset key; for any other key that is
\* down, its case of the switch and then camera.UpdatePosition and
\* camera.UpdateRotation with the two deltas as they stand.
KeyStep(frame, pressed, mapping) ==
    IF ~keyCodes(pressed, mapping[2]) THEN frame
    ELSE IF mapping[1] = "MODIFIER_RESET" THEN <<Camera_Reset(frame[1]), frame[2], frame[3]>>
    ELSE LET added == KeyDelta(mapping[1], keyCodes(pressed, {"R"}), frame[1].transform.heading)
             cam_deltaPosition == AddFloat3(frame[2], added[1])
             cam_deltaRotation == AddFloat3(frame[3], added[2])
         IN <<Camera_UpdateRotation(Camera_UpdatePosition(frame[1], cam_deltaPosition, TRUE),
                                    cam_deltaRotation, TRUE),
              cam_deltaPosition, cam_deltaRotation>>

RECURSIVE KeyLoop(_, _, _)
KeyLoop(frame, pressed, i) ==
    IF i > Len(keyMap) THEN frame ELSE KeyLoop(KeyStep(frame, pressed, keyMap[i]), pressed, i + 1)

\* The camera Game::Update leaves: keyPressed is always true, since the
\* SPACEBAR and TAB entries of keyCodes set it whatever their state.
UpdateCamera(c, pressed) == KeyLoop(<<c, <<0, 0, 0>>, <<0, 0, 0>>>>, pressed, 1)[1]

\* Game::Init: CreateMatrices, CreateBasicGeometry and CreateEntities
Game_Init_camera ==
    /\ gamePc = "constructed"
    /\ gamePc' = "running"
    /\ meshObjects' = [id \in MeshIds |-> id]
    /\ gameEntities' = [i \in 1..GameEntityCount |-> EntityMesh(i)]
    /\ meshHeap' = CreateEntities(CreateBasicGeometry(meshHeap, 1), 1)
    /\ camera' = UpdateProjectionMatrix(UpdateViewMatrix(camera))
    /\ cameraCall' = [camera |-> camera, op |-> "Game::Init", isRelative |-> FALSE,
                      arg |-> {}]
    /\ UNCHANGED <<cameraOps, gameLoop, gameFrames, staleUse>>
    /\ UNCHANGED <<entityVars, pairVars, bufferVars, descriptionVars, optionVars, mouseVars, unitVars, valueVars, materialVars, randomVars, lifeVars, copyVars>>

\* Game::Update with the keys in pressed down: the keyboard loop, then
\* gameEntities[i]->Update for every i.
Game_Update_keys(pressed) ==
    /\ gamePc = "running"
    /\ cameraOps < MaxKeyFrames
    /\ camera' = UpdateCamera(camera, pressed)
    /\ cameraCall' = [camera |-> camera, op |-> "Game::Update", isRelative |-> TRUE,
                      arg |-> pressed]
    /\ cameraOps' = cameraOps + 1
    /\ gameFrames' = <<gameFrames[1] + 1, gameFrames[2]>>
    /\ staleUse' = (staleUse \/ SomeEntityIsStale)
    /\ UNCHANGED <<gamePc, gameLoop, meshObjects, gameEntities, meshHeap>>
    /\ UNCHANGED <<entityVars, pairVars, bufferVars, descriptionVars, optionVars, mouseVars, unitVars, valueVars, materialVars, randomVars, lifeVars, copyVars>>

NextKeys ==
    \/ Game_Init_camera
    \/ \E pressed \in {h \in SUBSET Keys : Cardinality(h) <= MaxHeldKeys} :
           Game_Update_keys(pressed)

SpecKeys == InitCamera /\ [][NextKeys]_vars

\* The sums, over the keys of keyMap that are down, of what each adds to the
\* two deltas, from entry i of keyMap on.
RECURSIVE HeldSum(_, _, _)
HeldSum(c, pressed, i) ==
    IF i > Len(keyMap) THEN <<<<0, 0, 0>>, <<0, 0, 0>>>>
    ELSE LET rest == HeldSum(c, pressed, i + 1)
             added == KeyDelta(keyMap[i][1], keyCodes(pressed, {"R"}), c.transform.heading)
         IN IF keyCodes(pressed, keyMap[i][2])
            THEN <<AddFloat3(rest[1], added[1]), AddFloat3(rest[2], added[2])>>
            ELSE rest

\* C36: one Game::Update (the reset key not held) changes the position of
\* the camera by the sum of the movement deltas of the keys held and its
\* orientation by the sum of their rotation deltas, each key counted once.
C36_EachHeldKeyOnce ==
    cameraCall.op = "Game::Update" /\ "TAB" \notin cameraCall.arg
    => LET sum == HeldSum(cameraCall.camera, cameraCall.arg, 1)
       IN /\ camera.transform.position =
                 AddFloat3(cameraCall.camera.transform.position, sum[1])
          /\ camera.transform.orientation =
                 AddFloat3(cameraCall.camera.transform.orientation, sum[2])

\* With one key held (the reset key apart) the camera moves and turns by the
\* delta of that key.
OneHeldKeyOnce ==
    cameraCall.op = "Game::Update" /\ Cardinality(cameraCall.arg) <= 1 => C36_EachHeldKeyOnce

\* ---------------------------------------------------------------------------
\* Game.cpp: the subscripts Game applies to gameEntities and meshObjects,
\* with Game::meshCount as a field.  A subscript past the end of a vector is
\* undefined: the step either ends the program or reads whatever is there
\* and goes on.
\* ---------------------------------------------------------------------------

\* The subscripts collection[i] for i < count, against the size in place.
Subscripts(collection, count, length) == {<<collection, i, length>> : i \in 0..(count - 1)}

\* Game::Init: CreateBasicGeometry sets meshCount to the number of meshes it
\* pushes; CreateEntities reads meshObjects[meshID] for each entity.
Life_Init ==
    /\ gamePc = "constructed"
    /\ gamePc' = "running"
    /\ gameMeshCount' = MeshCount
    /\ meshObjects' = [id \in MeshIds |-> id]
    /\ gameEntities' = [i \in 1..GameEntityCount |-> EntityMesh(i)]
    /\ meshHeap' = CreateEntities(CreateBasicGeometry(meshHeap, 1), 1)
    /\ indexing' = {<<"meshObjects", EntityMesh(i) - 1, MeshCount>> : i \in 1..GameEntityCount}
    /\ initRan' = TRUE
    /\ UNCHANGED <<gameLoop, gameFrames, staleUse>>
    /\ UNCHANGED <<entityVars, pairVars, bufferVars, descriptionVars, optionVars, cameraVars, mouseVars, unitVars, valueVars, materialVars, randomVars, copyVars>>

\* Game::Update: gameEntities[i]->Update for i < gameEntityCount
Life_Update ==
    /\ gamePc = "running"
    /\ gameFrames[1] < MaxFrames
    /\ gameFrames' = <<gameFrames[1] + 1, gameFrames[2]>>
    /\ staleUse' = (staleUse \/ SomeEntityIsStale)
    /\ indexing' = Subscripts("gameEntities", GameEntityCount, Len(gameEntities))
    /\ UNCHANGED <<gamePc, gameLoop, meshObjects, gameEntities, meshHeap, gameMeshCount, initRan>>
    /\ UNCHANGED <<entityVars, pairVars, bufferVars, descriptionVars, optionVars, cameraVars, mouseVars, unitVars, valueVars, materialVars, randomVars, copyVars>>

\* Game::Draw: gameEntities[i] for i < gameEntityCount
Life_Draw ==
    /\ gamePc = "running"
    /\ gameFrames[2] < MaxFrames
    /\ gameFrames' = <<gameFrames[1], gameFrames[2] + 1>>
    /\ staleUse' = (staleUse \/ SomeEntityIsStale)
    /\ meshHeap' = DrawEntities(meshHeap, 1)
    /\ indexing' = Subscripts("gameEntities", GameEntityCount, Len(gameEntities))
    /\ UNCHANGED <<gamePc, gameLoop, meshObjects, gameEntities, gameMeshCount, initRan>>
    /\ UNCHANGED <<entityVars, pairVars, bufferVars, descriptionVars, optionVars, cameraVars, mouseVars, unitVars, valueVars, materialVars, randomVars, copyVars>>

\* Game::~Game is entered: the Game goes out of scope, whether or not Init
\* was called on it.
Life_Destroy ==
    /\ gamePc \in {"constructed", "running"}
    /\ gamePc' = "~Game: gameEntities"
    /\ gameLoop' = 0
    /\ indexing' = {}
    /\ UNCHANGED <<meshObjects, gameEntities, meshHeap, gameFrames, staleUse, gameMeshCount, initRan>>
    /\ UNCHANGED <<entityVars, pairVars, bufferVars, descriptionVars, optionVars, cameraVars, mouseVars, unitVars, valueVars, materialVars, randomVars, copyVars>>

\* Game::~Game: gameEntities[i].reset() for i < gameEntityCount
Life_Destroy_EntityReset ==
    /\ gamePc = "~Game: gameEntities"
    /\ gameLoop < GameEntityCount
    /\ indexing' = {<<"gameEntities", gameLoop, Len(gameEntities)>>}
    /\ IF gameLoop < Len(gameEntities)
       THEN /\ gameLoop' = gameLoop + 1
            /\ meshHeap' = SharedPtr_reset(meshHeap, gameEntities[gameLoop + 1])
            /\ gameEntities' = [gameEntities EXCEPT ![gameLoop + 1] = 0]
            /\ gamePc' = gamePc
       ELSE /\ \/ gamePc' = "crashed" /\ gameLoop' = gameLoop
               \/ gamePc' = gamePc /\ gameLoop' = gameLoop + 1
            /\ UNCHANGED <<meshHeap, gameEntities>>
    /\ UNCHANGED <<meshObjects, gameFrames, staleUse, gameMeshCount, initRan>>
    /\ UNCHANGED <<entityVars, pairVars, bufferVars, descriptionVars, optionVars, cameraVars, mouseVars, unitVars, valueVars, materialVars, randomVars, copyVars>>

\* Game::~Game: gameEntities.clear() and the swap with an empty collection
Life_Destroy_EntitiesCleared ==
    /\ gamePc = "~Game: gameEntities"
    /\ gameLoop = GameEntityCount
    /\ gamePc' = "~Game: meshObjects"
    /\ gameLoop' = 0
    /\ gameEntities' = <<>>
    /\ indexing' = {}
    /\ UNCHANGED <<meshObjects, meshHeap, gameFrames, staleUse, gameMeshCount, initRan>>
    /\ UNCHANGED <<entityVars, pairVars, bufferVars, descriptionVars, optionVars, cameraVars, mouseVars, unitVars, valueVars, materialVars, randomVars, copyVars>>

\* Game::~Game: meshObjects[i].reset() for i < meshCount
Life_Destroy_MeshReset ==
    /\ gamePc = "~Game: meshObjects"
    /\ gameLoop < gameMeshCount
    /\ indexing' = {<<"meshObjects", gameLoop, Len(meshObjects)>>}
    /\ IF gameLoop < Len(meshObjects)
       THEN /\ gameLoop' = gameLoop + 1
            /\ meshHeap' = SharedPtr_reset(meshHeap, meshObjects[gameLoop + 1])
            /\ meshObjects' = [meshObjects EXCEPT ![gameLoop + 1] = 0]
            /\ gamePc' = gamePc
       ELSE /\ \/ gamePc' = "crashed" /\ gameLoop' = gameLoop
               \/ gamePc' = gamePc /\ gameLoop' = gameLoop + 1
            /\ UNCHANGED <<meshHeap, meshObjects>>
    /\ UNCHANGED <<gameEntities, gameFrames, staleUse, gameMeshCount, initRan>>
    /\ UNCHANGED <<entityVars, pairVars, bufferVars, descriptionVars, optionVars, cameraVars, mouseVars, unitVars, valueVars, materialVars, randomVars, copyVars>>

\* Game::~Game: meshObjects.clear() and the swap with an empty collection
Life_Destroy_MeshesCleared ==
    /\ gamePc = "~Game: meshObjects"
    /\ gameLoop = gameMeshCount
    /\ gamePc' = "destroyed"
    /\ meshObjects' = <<>>
    /\ indexing' = {}
    /\ UNCHANGED <<gameLoop, gameEntities, meshHeap, gameFrames, staleUse, gameMeshCount, initRan>>
    /\ UNCHANGED <<entityVars, pairVars, bufferVars, descriptionVars, optionVars, cameraVars, mouseVars, unitVars, valueVars, materialVars, randomVars, copyVars>>

NextLife ==
    \/ Life_Init
    \/ Life_Update
    \/ Life_Draw
    \/ Life_Destroy
    \/ Life_Destroy_EntityReset
    \/ Life_Destroy_EntitiesCleared
    \/ Life_Destroy_MeshReset
    \/ Life_Destroy_MeshesCleared

InitLife ==
    /\ local = EntityDefault
    /\ transformBuffer = <<>> /\ call = ConstructedEntity /\ pushes = 0
    /\ pairLocal = EntityDefault
    /\ pairBuffer = <<>> /\ pairCall = ConstructedPair /\ pairPushes = 0
    /\ internalQueue = <<>> /\ bufferCall = ConstructedBuffer /\ bufferOps = 0
    /\ InitCameraFile

SpecLife == InitLife /\ [][NextLife]_vars

\* C37: every subscript Game applies to gameEntities or meshObjects, in
\* Init, Update, Draw and the destructor, is below the size of the
\* collection, whether or not Init ran before the destructor.
C37_SubscriptsInBounds == \A a \in indexing : a[2] < a[3]

\* Once Init has run, every subscript is below the size of its collection.
SubscriptsInBoundsAfterInit == initRan => C37_SubscriptsInBounds

\* ---------------------------------------------------------------------------
\* Camera.cpp: the object Camera::GetTransform returns, and the calls made on
\* it.  A call on an object that refers to the camera writes the transform
\* of the camera; a call on a copy writes the copy.
\* ---------------------------------------------------------------------------

\* The most calls of this part of the model.
MaxCopyOps == 3

\* A GetTransform that returns a reference to the member.
Camera_GetTransform_reference(c) == <<TRUE, c.transform>>

\* TransformDescription Camera::GetTransform() const: the return by value
\* copy-constructs the result from the member.
Camera_GetTransform(c) == <<FALSE, TD_copy(c.transform)>>

\* The TransformDescription a call on the returned object acts on.
ReturnedObject(r, c) == IF r[1] THEN c.transform ELSE r[2]

\* A call on the returned object that leaves it as td.
ReturnedCalled(op, td, arg) ==
    /\ returned # <<>>
    /\ cameraOps < MaxCopyOps
    /\ IF returned[1]
       THEN camera' = [camera EXCEPT !.transform = td]
       ELSE camera' = camera
    /\ returned' = <<returned[1], td>>
    /\ cameraCall' = [camera |-> camera, op |-> op, isRelative |-> FALSE, arg |-> arg]
    /\ cameraOps' = cameraOps + 1
    /\ UNCHANGED <<entityVars, pairVars, bufferVars, descriptionVars, optionVars, mouseVars, unitVars, meshVars, valueVars, materialVars, randomVars, lifeVars>>

Returned_SetPosition(absolute) ==
    ReturnedCalled("returned.SetPosition",
                   TD_SetPosition(ReturnedObject(returned, camera), absolute), absolute)

Returned_SetRotation(absolute) ==
    ReturnedCalled("returned.SetRotation",
                   TD_SetRotation(ReturnedObject(returned, camera), absolute), absolute)

Returned_Translate(delta) ==
    ReturnedCalled("returned.Translate",
                   TD_Translate(ReturnedObject(returned, camera), delta), delta)

Returned_Rotate(delta) ==
    ReturnedCalled("returned.Rotate", TD_Rotate(ReturnedObject(returned, camera), delta), delta)

Returned_Reset ==
    ReturnedCalled("returned.Reset", TD_Reset(ReturnedObject(returned, camera)), <<0, 0, 0>>)

\* TransformDescription t = camera.GetTransform();
Copy_GetTransform ==
    /\ cameraOps < MaxCopyOps
    /\ returned' = Camera_GetTransform(camera)
    /\ cameraCall' = [camera |-> camera, op |-> "GetTransform", isRelative |-> FALSE,
                      arg |-> <<0, 0, 0>>]
    /\ cameraOps' = cameraOps + 1
    /\ UNCHANGED camera
    /\ UNCHANGED <<entityVars, pairVars, bufferVars, descriptionVars, optionVars, mouseVars, unitVars, meshVars, valueVars, materialVars, randomVars, lifeVars>>

\* Camera::MoveTo, so that the camera and the objects returned earlier differ.
Copy_MoveTo(absolute) ==
    /\ cameraOps < MaxCopyOps
    /\ camera' = Camera_MoveTo(camera, absolute)
    /\ cameraCall' = [camera |-> camera, op |-> "MoveTo", isRelative |-> FALSE,
                      arg |-> absolute]
    /\ cameraOps' = cameraOps + 1
    /\ UNCHANGED returned
    /\ UNCHANGED <<entityVars, pairVars, bufferVars, descriptionVars, optionVars, mouseVars, unitVars, meshVars, valueVars, materialVars, randomVars, lifeVars>>

\* Game::CreateMatrices: camera.GetTransform().SetPosition(XMFLOAT3(0, 0, -5))
\* on the temporary GetTransform returns, then UpdateViewMatrix and
\* UpdateProjectionMatrix.
Copy_CreateMatrices ==
    /\ cameraOps < MaxCopyOps
    /\ LET temporary == Camera_GetTransform(camera)
           moved == TD_SetPosition(ReturnedObject(temporary, camera), <<0, 0, -5>>)
           written == IF temporary[1] THEN [camera EXCEPT !.transform = moved] ELSE camera
       IN camera' = UpdateProjectionMatrix(UpdateViewMatrix(written))
    /\ cameraCall' = [camera |-> camera, op |-> "Game::CreateMatrices", isRelative |-> FALSE,
                      arg |-> <<0, 0, -5>>]
    /\ cameraOps' = cameraOps + 1
    /\ UNCHANGED returned
    /\ UNCHANGED <<entityVars, pairVars, bufferVars, descriptionVars, optionVars, mouseVars, unitVars, meshVars, valueVars, materialVars, randomVars, lifeVars>>

NextCopy ==
    \/ Copy_GetTransform
    \/ \E absolute \in ResetPositions : Returned_SetPosition(absolute)
    \/ \E absolute \in ResetRotations : Returned_SetRotation(absolute)
    \/ \E delta \in ResetPositions : Returned_Translate(delta)
    \/ \E delta \in ResetRotations : Returned_Rotate(delta)
    \/ Returned_Reset
    \/ \E absolute \in ResetPositions : Copy_MoveTo(absolute)
    \/ Copy_CreateMatrices

SpecCopy == InitCamera /\ [][NextCopy]_vars

\* The calls made on the object GetTransform returned.
ReturnedCalls ==
    {"returned.SetPosition", "returned.SetRotation", "returned.Translate", "returned.Rotate",
     "returned.Reset"}

====
